---------------------------- MODULE Spec2Model ----------------------------
(***************************************************************************)
(* Federated paper search of hanuicast: the /api/papers GET handler        *)
(* (query expansion, parallel fetch, combine and sort) and the source      *)
(* adapters of lib/paperSources.ts.                                        *)
(*                                                                         *)
(* Text is a sequence of one-character tokens.  A JavaScript number is a   *)
(* record [nan, v], so that NaN is a value of its own.                     *)
(***************************************************************************)
EXTENDS Integers, Sequences, FiniteSets, TLC

VARIABLES
    req,          \* the request's URL parameters q, limit, category
    upstream,     \* what every external service answers during this request
    pc,           \* position of the GET handler
    options,      \* the SearchOptions the handler (or a direct caller) built
    englishQuery, \* the handler's englishQuery
    genCalls,     \* number of generateContent invocations
    calls,        \* the HTTP calls issued so far, in order
    ad,           \* per adapter: position, arguments, resolved ids, returned list
    response,     \* the handler's response
    textCall,     \* a call of one of the text functions: function, argument, result
    cleanup,      \* the storage cleanup job, the saved papers and the audio bucket
    tts,          \* the text-to-speech handler: chunks, attempts, upload and insert
    summarize     \* the summarize handler: request, model answers, models tried

\* The state of the search handler and its adapters, and the state of the other
\* entry points of the program
mainVars == <<req, upstream, pc, options, englishQuery, genCalls, calls, ad, response>>
auxVars == <<textCall, cleanup, tts, summarize>>
vars == <<req, upstream, pc, options, englishQuery, genCalls, calls, ad, response, textCall,
          cleanup, tts, summarize>>

-----------------------------------------------------------------------------
(* Bounds of the model *)

MaxQueryLen == 2
MaxLimitLen == 2
MaxTextLen == 2
MaxIds == 2
MaxArticles == 2
MaxRecords == 2
MaxFormulas == 2
MaxDepth == 2
MaxEntityLen == 4
MaxTitleLen == 3
MaxFiles == 2
MaxPieces == 3

-----------------------------------------------------------------------------
(* Generic helpers *)

RECURSIVE SeqsUpTo(_, _)
SeqsUpTo(S, n) ==
    IF n = 0 THEN {<<>>}
    ELSE LET shorter == SeqsUpTo(S, n - 1)
         IN  shorter \cup {Append(s, x) : s \in {t \in shorter : Len(t) = n - 1}, x \in S}

Min(a, b) == IF a <= b THEN a ELSE b

Range(s) == {s[i] : i \in DOMAIN s}

-----------------------------------------------------------------------------
(* JavaScript numbers *)

Num(n) == [nan |-> FALSE, v |-> n]
NaN == [nan |-> TRUE, v |-> 0]

\* Math.min(a, b): NaN if either argument is NaN
MathMin(a, b) == IF a.nan \/ b.nan THEN NaN ELSE Num(Min(a.v, b.v))

Digits == {"0", "1", "2", "3", "4", "5", "6", "7", "8", "9"}

DigitVal(c) ==
    CASE c = "0" -> 0 [] c = "1" -> 1 [] c = "2" -> 2 [] c = "3" -> 3 [] c = "4" -> 4
      [] c = "5" -> 5 [] c = "6" -> 6 [] c = "7" -> 7 [] c = "8" -> 8 [] c = "9" -> 9

RECURSIVE DigitPrefix(_)
DigitPrefix(s) ==
    IF s = <<>> \/ Head(s) \notin Digits THEN <<>>
    ELSE <<Head(s)>> \o DigitPrefix(Tail(s))

RECURSIVE DecimalValue(_)
DecimalValue(ds) ==
    IF ds = <<>> THEN 0
    ELSE 10 * DecimalValue(SubSeq(ds, 1, Len(ds) - 1)) + DigitVal(ds[Len(ds)])

\* parseInt(s, 10): optional sign, then the longest prefix of digits; NaN without digits
ParseInt(s) ==
    LET neg == s # <<>> /\ Head(s) = "-"
        body == IF neg THEN Tail(s) ELSE s
        ds == DigitPrefix(body)
    IN  IF ds = <<>> THEN NaN
        ELSE Num(IF neg THEN 0 - DecimalValue(ds) ELSE DecimalValue(ds))

-----------------------------------------------------------------------------
(* Text: the characters the handler's tests and replacements tell apart *)

\* "a": a Latin letter, "k": a Hangul jamo or syllable, "|": the vertical bar,
\* " ": white space, "q": a double quote or a dot, "f": a code fence (three backticks)
QueryChars == {"a", "k", "|"}
TextChars == {"a", " ", "q", "f"}
LimitChars == {"-", "1", "9", "x"}

\* searchParams.get(name): a parameter is absent (null) or carries text
Absent == [has |-> FALSE, val |-> <<>>]
Given(t) == [has |-> TRUE, val |-> t]

\* searchParams.get(name) || dflt
OrDefault(p, dflt) == IF p.has /\ p.val # <<>> THEN p.val ELSE dflt

RECURSIVE TrimStart(_)
TrimStart(t) == IF t # <<>> /\ Head(t) = " " THEN TrimStart(Tail(t)) ELSE t

RECURSIVE TrimEnd(_)
TrimEnd(t) ==
    IF t # <<>> /\ t[Len(t)] = " " THEN TrimEnd(SubSeq(t, 1, Len(t) - 1)) ELSE t

\* String.prototype.trim
Trim(t) == TrimEnd(TrimStart(t))

RECURSIVE Without(_, _)
Without(t, S) ==
    IF t = <<>> THEN <<>>
    ELSE IF Head(t) \in S THEN Without(Tail(t), S)
    ELSE <<Head(t)>> \o Without(Tail(t), S)

\* .replace(/^```|```$/g, ''): a fence at the very start and a fence at the very end
StripFences(t) ==
    LET a == IF t # <<>> /\ Head(t) = "f" THEN Tail(t) ELSE t
    IN  IF a # <<>> /\ a[Len(a)] = "f" THEN SubSeq(a, 1, Len(a) - 1) ELSE a

\* response.text().trim().replace(/[".]/g, '') and then the fence cleanup and trim
CleanExpansion(text) == Trim(StripFences(Without(Trim(text), {"q"})))

\* The Korean-script test of the handler, a regular expression of one character
\* class: the class holds the three Hangul ranges and, between them, the literal
\* vertical bar
KoreanRegexTest(query) == \E i \in DOMAIN query : query[i] \in {"k", "|"}

\* if (/[...]/.test(query) || category)
NeedsExpansion(query, category) == KoreanRegexTest(query) \/ category # <<>>

-----------------------------------------------------------------------------
(* Papers *)

DefaultMaxResults == 10
MaxResultsCap == 20
DefaultTimeoutMs == 60000
BatchTimeoutMs == 30000

\* SearchOptions as the caller passes it: maxResults, mode (<<>> when left out) and
\* fullTextOnly (FALSE when left out)
NoOptions == [hasMax |-> FALSE, maxResults |-> Num(0), mode |-> <<>>, fullTextOnly |-> FALSE]
WithMax(n) == [NoOptions EXCEPT !.hasMax = TRUE, !.maxResults = n]
WithMode(opts, mode, fullTextOnly) ==
    [opts EXCEPT !.mode = mode, !.fullTextOnly = fullTextOnly]

\* The clauses fetchPubmedPapers appends to the query, each ' AND (x OR y ...)', as the
\* sequence of its alternatives
EvidenceTypes == <<"\"meta-analysis\"[pt]", "\"systematic review\"[pt]">>
ClinicalTypes ==
    <<"\"case reports\"[pt]", "\"clinical trial\"[pt]", "\"meta-analysis\"[pt]",
      "\"systematic review\"[pt]">>
FullTextFilter == <<"\"free full text\"[sb]", "\"open access\"[filter]">>

\* The mode clauses with evidence and clinical exchanged
ModeClause_swapped(mode) ==
    IF mode = <<"evidence">> THEN <<ClinicalTypes>>
    ELSE IF mode = <<"clinical">> THEN <<EvidenceTypes>>
    ELSE <<>>

\* if (opts.mode === 'evidence') ... else if (opts.mode === 'clinical') ...
ModeClause(mode) ==
    IF mode = <<"evidence">> THEN <<EvidenceTypes>>
    ELSE IF mode = <<"clinical">> THEN <<ClinicalTypes>>
    ELSE <<>>

\* if (opts.fullTextOnly) ...
FullTextClause(fullTextOnly) == IF fullTextOnly THEN <<FullTextFilter>> ELSE <<>>

\* searchTerms after the query: the clauses appended, in order
SearchClauses(opts) == ModeClause(opts.mode) \o FullTextClause(opts.fullTextOnly)

\* const opts = { ...DEFAULT_OPTIONS, ...options }
MergedMaxResults(opts) == IF opts.hasMax THEN opts.maxResults ELSE Num(DefaultMaxResults)

Paper(id, title, authors, date, abstract, url, source) ==
    [id |-> id, title |-> title, authors |-> authors, date |-> date,
     abstract |-> abstract, originalUrl |-> url, source |-> source]

\* `${Year} ${Month}`.trim()
YearMonth(year, month) ==
    IF month = "" THEN year
    ELSE IF year = "" THEN month
    ELSE year \o " " \o month

\* One element of articles.map(...) in fetchPubmedPapers
PubmedArticleToPaper(a) ==
    LET pmid == IF a.pmid # "" THEN a.pmid ELSE "unknown"
    IN  IF ~a.article
        THEN Paper("pubmed_" \o pmid, "[PubMed] no details (ID: " \o pmid \o ")", "N/A",
                   "Unknown", "unexpected data structure",
                   "https://pubmed.ncbi.nlm.nih.gov/" \o pmid \o "/", "PubMed")
        ELSE Paper("pubmed_" \o pmid, "Title", "Unknown Authors",
                   IF a.pubDate THEN YearMonth(a.year, a.month) ELSE "Unknown Date",
                   "No abstract available.",
                   "https://pubmed.ncbi.nlm.nih.gov/" \o pmid \o "/", "PubMed")

\* One element of ids.map(...) in the catch block of fetchPubmedPapers
PubmedPlaceholder(id) ==
    Paper("pubmed_" \o id, "PubMed Article (ID: " \o id \o ")", "Details unavailable",
          "Unknown", "[PubMed ID: " \o id \o "] Failed to load details due to timeout.",
          "https://pubmed.ncbi.nlm.nih.gov/" \o id \o "/", "PubMed")

\* Math.random().toString(36).substring(7)
RandomSuffixes == {"r1", "r2"}

\* The record whose id takes a fresh random suffix on every call
KciRecordToPaper_random(r, rnd) ==
    Paper("kci_" \o rnd, "Title", "Unknown Authors",
          IF r.pubYear # "" THEN r.pubYear ELSE "Unknown Date",
          "[KCI Article] Click to view details.",
          "https://www.kci.go.kr/artiView?artiId=" \o rnd, "KCI")

\* One element of recordList.map(...) in fetchKciPapers; rnd is the random suffix drawn
KciRecordToPaper(r, rnd) ==
    LET articleId == IF r.articleId # "" THEN r.articleId ELSE rnd
        pubYear == IF r.pubYear # "" THEN r.pubYear ELSE "Unknown Date"
    IN  Paper("kci_" \o articleId, "Title", "Unknown Authors", pubYear,
              "[KCI Article] Click to view details.",
              "https://www.kci.go.kr/artiView?artiId=" \o articleId, "KCI")

\* One element of entryList.map(...) in fetchJStagePapers: entryId is the entry's id
\* (or link), path is entryId.split('/').filter(Boolean)
JStageEntryToPaper(e, rnd) ==
    LET shortId == IF e.path # <<>> THEN e.path[Len(e.path)] ELSE rnd
        pubDate == IF e.pubyear # "" THEN e.pubyear ELSE "Unknown Date"
    IN  Paper("jstage_" \o shortId, "Title", "Unknown Authors", pubDate, "[JP] N/A [EN] Title",
              IF e.path # <<>> THEN "entryId" ELSE "https://www.jstage.jst.go.jp/article/",
              "J-STAGE")

\* One element of papers.map(...) in fetchSemanticScholarPapers
SemanticScholarToPaper(p) ==
    LET paperId == IF p.paperId # "" THEN p.paperId ELSE "undefined"
    IN  Paper("semanticscholar_" \o paperId, "Title", "Unknown Authors",
              IF p.year # "" THEN p.year ELSE "Unknown Date",
              "[AI Search Result] Abstract not available in search snippet.",
              "https://www.semanticscholar.org/paper/" \o paperId, "Semantic Scholar")

-----------------------------------------------------------------------------
(* Text functions of the KCI adapter (lib/paperSources.ts) *)

\* A value of a parse tree: its kind, the characters of a string (or of the decimal
\* form of a number; a boolean is true when `chars` is not empty), and the entries of
\* an object in Object.keys order (of an array in index order, the keys unused)
Value(kind, chars, items) == [kind |-> kind, chars |-> chars, items |-> items]
Entry(key, val) == [key |-> key, val |-> val]

Undefined == Value("undefined", <<>>, <<>>)
Null == Value("null", <<>>, <<>>)
Bool(b) == Value("boolean", IF b THEN <<"1">> ELSE <<>>, <<>>)
Number(digits) == Value("number", digits, <<>>)
Str(chars) == Value("string", chars, <<>>)
Arr(vals) == Value("array", <<>>, [i \in DOMAIN vals |-> Entry("", vals[i])])
Obj(entries) == Value("object", <<>>, entries)

\* The truthiness of a value in `a || b` and in `if (a)`
Truthy(val) ==
    CASE val.kind \in {"undefined", "null"} -> FALSE
      [] val.kind \in {"string", "boolean"} -> val.chars # <<>>
      [] val.kind = "number" -> val.chars # <<"0">>
      [] OTHER -> TRUE

\* val[key] of an object (undefined when the key is absent or val is a string)
Property(val, key) ==
    IF val.kind = "object" /\ \E i \in DOMAIN val.items : val.items[i].key = key
    THEN val.items[CHOOSE i \in DOMAIN val.items : val.items[i].key = key].val
    ELSE Undefined

\* key.startsWith('@_'): the attribute names of the model
AttributeKeys == {"@_lang", "@_id"}
IsAttributeKey(key) == key \in AttributeKeys

\* text.replace(/pat/g, rep) for a pattern that is a literal string
RECURSIVE ReplaceAll(_, _, _)
ReplaceAll(t, pat, rep) ==
    IF Len(t) < Len(pat) THEN t
    ELSE IF SubSeq(t, 1, Len(pat)) = pat
    THEN rep \o ReplaceAll(SubSeq(t, Len(pat) + 1, Len(t)), pat, rep)
    ELSE <<Head(t)>> \o ReplaceAll(Tail(t), pat, rep)

HexChars == <<"0", "1", "2", "3", "4", "5", "6", "7", "8", "9", "a", "b", "c", "d", "e", "f">>
HexVal(c) == (CHOOSE i \in DOMAIN HexChars : HexChars[i] = c) - 1

\* parseInt(digits, base) of a non-empty run of digits of that base
RECURSIVE Radix(_, _)
Radix(digits, base) ==
    IF digits = <<>> THEN 0
    ELSE Radix(SubSeq(digits, 1, Len(digits) - 1), base) * base + HexVal(digits[Len(digits)])

\* String.fromCharCode(n): the characters the model names, "u" for any other one
FromCharCode(n) ==
    LET code == n % 65536
    IN  CASE code = 32 -> " "
          [] code = 38 -> "&"
          [] code = 60 -> "<"
          [] code = 62 -> ">"
          [] OTHER -> "u"

RECURSIVE DigitRun(_, _)
DigitRun(t, D) ==
    IF t # <<>> /\ Head(t) \in D THEN <<Head(t)>> \o DigitRun(Tail(t), D) ELSE <<>>

\* text.replace(/<prefix>([digits]+);/g, (_, d) => String.fromCharCode(parseInt(d, base)))
RECURSIVE ReplaceNumeric(_, _, _, _)
ReplaceNumeric(t, prefix, D, base) ==
    IF t = <<>> THEN <<>>
    ELSE LET n == Len(prefix)
             run == IF Len(t) > n /\ SubSeq(t, 1, n) = prefix
                    THEN DigitRun(SubSeq(t, n + 1, Len(t)), D) ELSE <<>>
             end == n + Len(run) + 1
         IN  IF run # <<>> /\ end <= Len(t) /\ t[end] = ";"
             THEN <<FromCharCode(Radix(run, base))>>
                      \o ReplaceNumeric(SubSeq(t, end + 1, Len(t)), prefix, D, base)
             ELSE <<Head(t)>> \o ReplaceNumeric(Tail(t), prefix, D, base)

Entity(name) == <<"&">> \o name \o <<";">>

\* decodeEntities: the eight replacements, in the order of the code
decodeEntities(t) ==
    IF t = <<>> THEN <<>>
    ELSE LET hex == ReplaceNumeric(t, <<"&", "#", "x">>, Range(HexChars), 16)
             dec == ReplaceNumeric(hex, <<"&", "#">>, Digits, 10)
             quot == ReplaceAll(dec, Entity(<<"q", "u", "o", "t">>), <<"\"">>)
             amp == ReplaceAll(quot, Entity(<<"a", "m", "p">>), <<"&">>)
             lt == ReplaceAll(amp, Entity(<<"l", "t">>), <<"<">>)
             gt == ReplaceAll(lt, Entity(<<"g", "t">>), <<">">>)
             nbsp == ReplaceAll(gt, Entity(<<"n", "b", "s", "p">>), <<" ">>)
         IN  ReplaceAll(nbsp, Entity(<<"a", "p", "o", "s">>), <<"'">>)

RECURSIVE flattenText(_)

\* val.map(flattenText).join(' ')
RECURSIVE JoinTexts(_)
JoinTexts(items) ==
    IF items = <<>> THEN <<>>
    ELSE IF Len(items) = 1 THEN flattenText(items[1].val)
    ELSE flattenText(items[1].val) \o <<" ">> \o JoinTexts(Tail(items))

\* The loop over Object.keys(val): '#text' and the keys in `skipped` contribute
\* nothing, an empty child text contributes nothing
RECURSIVE ChildTexts(_, _, _)
ChildTexts(items, acc, skipped) ==
    IF items = <<>> THEN acc
    ELSE LET childText == flattenText(Head(items).val)
         IN  IF Head(items).key = "#text" \/ Head(items).key \in skipped \/ childText = <<>>
             THEN ChildTexts(Tail(items), acc, skipped)
             ELSE ChildTexts(Tail(items),
                             acc \o (IF acc # <<>> THEN <<" ">> ELSE <<>>) \o childText,
                             skipped)

\* let text = ''; if (val['#text'] !== undefined) text += flattenText(val['#text'])
OwnText(val) ==
    IF Property(val, "#text").kind # "undefined" THEN flattenText(Property(val, "#text"))
    ELSE <<>>

\* flattenText that takes the attributes of an element for child elements
flattenText_keepAttributes(val) ==
    CASE val.kind \in {"undefined", "null"} -> <<>>
      [] val.kind = "string" -> decodeEntities(val.chars)
      [] val.kind = "number" -> val.chars
      [] val.kind = "array" -> Trim(JoinTexts(val.items))
      [] val.kind = "object" -> Trim(ChildTexts(val.items, OwnText(val), {}))
      [] OTHER -> <<>>

flattenText(val) ==
    CASE val.kind \in {"undefined", "null"} -> <<>>
      [] val.kind = "string" -> decodeEntities(val.chars)
      [] val.kind = "number" -> val.chars
      [] val.kind = "array" -> Trim(JoinTexts(val.items))
      [] val.kind = "object" -> Trim(ChildTexts(val.items, OwnText(val), AttributeKeys))
      [] OTHER -> <<>>

\* "H": the three syllables of the first word, "G": the syllable of the second one
RECURSIVE NormalizeRotatorCuff_singleSpace(_)
NormalizeRotatorCuff_singleSpace(t) ==
    IF t = <<>> THEN <<>>
    ELSE IF Len(t) >= 3 /\ SubSeq(t, 1, 3) = <<"H", " ", "G">>
    THEN <<"H", "G">> \o NormalizeRotatorCuff_singleSpace(SubSeq(t, 4, Len(t)))
    ELSE <<Head(t)>> \o NormalizeRotatorCuff_singleSpace(Tail(t))

\* .replace(/<first word>\s+<second word>/g, '<first word><second word>')
RECURSIVE NormalizeRotatorCuff(_)
NormalizeRotatorCuff(t) ==
    IF t = <<>> THEN <<>>
    ELSE LET spaces == DigitRun(Tail(t), {" "})
             after == SubSeq(t, Len(spaces) + 2, Len(t))
         IN  IF Head(t) = "H" /\ spaces # <<>> /\ after # <<>> /\ Head(after) = "G"
             THEN <<"H", "G">> \o NormalizeRotatorCuff(Tail(after))
             ELSE <<Head(t)>> \o NormalizeRotatorCuff(Tail(t))

\* title of a KCI record: getText(titleGroup['article-title'] || record.title ||
\* 'Untitled') and the normalisation ("U": the text Untitled)
KciTitle(articleTitle, recordTitle) ==
    NormalizeRotatorCuff(flattenText(
        IF Truthy(articleTitle) THEN articleTitle
        ELSE IF Truthy(recordTitle) THEN recordTitle
        ELSE Str(<<"U">>)))

\* abstract of a KCI record: the first abstract whose lang attribute is 'original' or
\* 'korean', else the first abstract, flattened and normalised; the placeholder text
\* ("K") when the result is empty or the record has no abstract
KciAbstract(abstract) ==
    LET absList == IF abstract.kind = "array"
                   THEN [i \in DOMAIN abstract.items |-> abstract.items[i].val]
                   ELSE <<abstract>>
        kor == {i \in DOMAIN absList :
                   Property(absList[i], "@_lang") \in {Str(<<"original">>), Str(<<"korean">>)}}
        chosen == IF kor # {} THEN absList[CHOOSE i \in kor : \A j \in kor : i <= j]
                  ELSE IF absList # <<>> THEN absList[1]
                  ELSE Undefined
        body == IF Truthy(abstract) THEN NormalizeRotatorCuff(flattenText(chosen)) ELSE <<>>
    IN  IF body # <<>> THEN body ELSE <<"K">>

\* No call of a text function
NoText == [fn |-> "none", arg |-> Undefined, arg2 |-> Undefined, out |-> <<>>, done |-> FALSE]

-----------------------------------------------------------------------------
(* The storage cleanup job (app/api/papers/route.ts) and the saved papers (app/page.tsx) *)

TwentyFourHours == 86400000

\* A paper of a saved list: audioUrl is the list of the parts between the slashes of
\* the URL, empty when the paper has no audio
SavedPaper(id, audioUrl) == [id |-> id, audioUrl |-> audioUrl]

\* parts = paper.audioUrl.split('/'); filename = parts[parts.length - 1]
FileNameOf(audioUrl) == audioUrl[Len(audioUrl)]

\* The names the job protects: for every paper of the whitelist with an audioUrl the
\* last part of the URL, when it is not empty
ProtectedFiles(value) ==
    {FileNameOf(value[i].audioUrl) :
        i \in {j \in DOMAIN value : value[j].audioUrl # <<>>
                                       /\ FileNameOf(value[j].audioUrl) # ""}}

\* A file of the bucket listing: `created` is Date.now() - new Date(created_at).getTime(),
\* NaN for a creation time that does not parse
BucketFile(name, created) == [name |-> name, created |-> created]

\* The two checks of step 4: not protected, and older than 24 hours
IsExpired(file, protectedFiles) ==
    /\ file.name \notin protectedFiles
    /\ ~file.created.nan
    /\ file.created.v > TwentyFourHours

RECURSIVE SelectFiles(_, _)
SelectFiles(files, protectedFiles) ==
    IF files = <<>> THEN <<>>
    ELSE (IF IsExpired(Head(files), protectedFiles) THEN <<Head(files)>> ELSE <<>>)
             \o SelectFiles(Tail(files), protectedFiles)

\* filesToDelete, in the order of the listing
FilesToDelete(files, protectedFiles) ==
    LET selected == SelectFiles(files, protectedFiles)
    IN  [i \in DOMAIN selected |-> selected[i].name]

CleanupError == [status |-> 500, success |-> FALSE, deletedFiles |-> <<>>, protectedCount |-> 0]
NothingToClean == [status |-> 200, success |-> FALSE, deletedFiles |-> <<>>, protectedCount |-> 0]
CleanupDone(deleted, protectedFiles) ==
    [status |-> 200, success |-> TRUE, deletedFiles |-> deleted,
     protectedCount |-> Cardinality(protectedFiles)]
NoCleanupResponse == [status |-> 0, success |-> FALSE, deletedFiles |-> <<>>, protectedCount |-> 0]

\* The job is not running; no saved paper, an empty bucket
NoCleanup ==
    [pc |-> "off", hasKey |-> TRUE, settings |-> "ok", list |-> "ok", remove |-> "ok",
     userSettings |-> <<>>, userPreferences |-> <<>>, bucket |-> <<>>, removed |-> {},
     protectedFiles |-> {}, filesToDelete |-> <<>>, response |-> NoCleanupResponse]

-----------------------------------------------------------------------------
(* The text-to-speech handler (part_002) *)

ChunkMaxLength == 500
MaxRetries == 1

\* A piece of the script as text.split(/([.?!]\s+)/) cuts it: a sentence with its
\* length, or a speaker label, which cleanText removes
Piece(id, kind, length) == [id |-> id, kind |-> kind, length |-> length]

\* cleanText: the label pieces are removed from the script
cleanText(script) == SelectSeq(script, LAMBDA piece : piece.kind # "label")

RECURSIVE LengthOf(_)
LengthOf(pieces) == IF pieces = <<>> THEN 0 ELSE Head(pieces).length + LengthOf(Tail(pieces))

\* chunkText: a piece that would take the current chunk over maxLength closes the
\* chunk, empty or not, and starts the next one; the last chunk is kept when not empty
RECURSIVE ChunkLoop(_, _, _)
ChunkLoop(sentences, chunks, currentChunk) ==
    IF sentences = <<>>
    THEN (IF currentChunk # <<>> THEN Append(chunks, currentChunk) ELSE chunks)
    ELSE IF LengthOf(currentChunk) + Head(sentences).length > ChunkMaxLength
    THEN ChunkLoop(Tail(sentences), Append(chunks, currentChunk), <<Head(sentences)>>)
    ELSE ChunkLoop(Tail(sentences), chunks, Append(currentChunk, Head(sentences)))

chunkText(pieces) == ChunkLoop(pieces, <<>>, <<>>)

\* scriptChunks = cleanedScript.length > 500 ? chunkText(cleanedScript) : [cleanedScript]
ScriptChunks(script) ==
    LET cleanedScript == cleanText(script)
    IN  IF LengthOf(cleanedScript) > ChunkMaxLength THEN chunkText(cleanedScript)
        ELSE <<cleanedScript>>

\* Buffer.concat(audioBuffers)
RECURSIVE Concat(_)
Concat(buffers) == IF buffers = <<>> THEN <<>> ELSE Head(buffers) \o Concat(Tail(buffers))

NoTts ==
    [pc |-> "off", hasScript |-> FALSE, script |-> <<>>, chunks |-> <<>>, i |-> 0,
     retryCount |-> 0, attempts |-> <<>>, failures |-> <<>>, audioBuffers |-> <<>>,
     uploadCalls |-> 0, uploaded |-> FALSE, file |-> <<>>, insertCalls |-> 0,
     inserted |-> FALSE, status |-> 0]

\* tts.ttsPromise(chunk, tempFilePath) is called for chunk i
Synthesise(t, i) == [t EXCEPT !.pc = "synth", !.i = i, !.attempts = Append(t.attempts, i)]

\* The catch block of the handler: status 500
TtsFailed(t) == [t EXCEPT !.pc = "done", !.status = 500]

\* The chunk loop that goes on to the next chunk when the retry failed as well
AfterChunkError_skip(t) ==
    LET failed == [t EXCEPT !.retryCount = t.retryCount + 1,
                            !.failures = Append(t.failures, t.i)]
    IN  IF failed.retryCount > MaxRetries
        THEN (IF t.i < Len(t.chunks) THEN [failed EXCEPT !.pc = "pause"]
              ELSE [failed EXCEPT !.pc = "uploading", !.uploadCalls = t.uploadCalls + 1])
        ELSE [failed EXCEPT !.pc = "backoff"]

\* catch (chunkErr): retryCount++, the error is thrown again after the last retry,
\* otherwise the handler waits a second
AfterChunkError(t) ==
    LET failed == [t EXCEPT !.retryCount = t.retryCount + 1,
                            !.failures = Append(t.failures, t.i)]
    IN  IF failed.retryCount > MaxRetries THEN TtsFailed(failed)
        ELSE [failed EXCEPT !.pc = "backoff"]

\* The chunk was synthesised and read: its buffer is pushed; a pause before the next
\* chunk, the upload of the concatenation after the last one
AfterChunkAudio(t) ==
    LET pushed == [t EXCEPT !.audioBuffers = Append(t.audioBuffers, t.chunks[t.i])]
    IN  IF t.i < Len(t.chunks) THEN [pushed EXCEPT !.pc = "pause"]
        ELSE [pushed EXCEPT !.pc = "uploading", !.uploadCalls = t.uploadCalls + 1]

-----------------------------------------------------------------------------
(* The summarize handler (app/api/summarize/route.ts) *)

modelsToTry == <<"gemini-2.0-flash", "gemini-1.5-flash", "gemini-1.5-pro">>

\* body: "invalid" when req.json() rejects, "json" otherwise; answers: for every
\* model, in the order of modelsToTry, what generateContent and response.text() give
NoSummarize ==
    [pc |-> "off", body |-> "json", hasAbstract |-> FALSE, answers |-> <<>>,
     tried |-> <<>>, status |-> 0, script |-> "", hasLastError |-> FALSE]

\* generateContent is awaited for the next model of the list
TryModel(sm) ==
    [sm EXCEPT !.pc = "generating", !.tried = Append(sm.tried, modelsToTry[Len(sm.tried) + 1])]

\* The outer catch block: status 500
SummarizeFailed(sm) == [sm EXCEPT !.pc = "done", !.status = 500]

\* One round of the loop after the await: a non-empty text is returned; an empty text
\* or an error (whatever its message) goes on to the next model; after the last model
\* the handler throws lastError or its own error
AfterModel(sm, answer) ==
    LET noted == [sm EXCEPT !.hasLastError = sm.hasLastError \/ answer \in {"404", "error"}]
    IN  IF answer = "text"
        THEN [sm EXCEPT !.pc = "done", !.status = 200, !.script = sm.tried[Len(sm.tried)]]
        ELSE IF Len(sm.tried) < Len(modelsToTry) THEN TryModel(noted)
        ELSE SummarizeFailed(noted)

\* Every other entry point is idle
AuxIdle ==
    /\ textCall = NoText
    /\ cleanup = NoCleanup
    /\ tts = NoTts
    /\ summarize = NoSummarize
    /\ summarize = NoSummarize

-----------------------------------------------------------------------------
(* Source adapters (lib/paperSources.ts) *)

Adapters == {"pubmed", "kci", "jstage", "ss"}
AllAdapters == Adapters \cup {"kampo"}
SingleFetchAdapters == {"kci", "jstage", "ss"}

\* `at` is the position of the adapter's promise in the order in which the promises of
\* the request settled (0 while it is pending)
Idle ==
    [pc |-> "idle", query |-> <<>>, max |-> Num(0), ids |-> <<>>, value |-> <<>>, at |-> 0]

SettledSoFar == Cardinality({a \in DOMAIN ad : ad[a].pc \in {"done", "rejected"}})

\* The adapter's promise is fulfilled with `value`
Returned(st, value) == [st EXCEPT !.pc = "done", !.value = value, !.at = SettledSoFar + 1]

\* An adapter without its catch block: the error leaves the function and the adapter's
\* promise is rejected
Caught_rethrown(st, fallback) == [st EXCEPT !.pc = "rejected", !.at = SettledSoFar + 1]

\* The catch block of an adapter: the error is logged (logToFile swallows its own
\* errors) and the fallback list is returned
Caught(st, fallback) == Returned(st, fallback)

\* The adapter's promise is settled, fulfilled or rejected
IsSettled(st) == st.pc \in {"done", "rejected"}

\* fetchWithTimeout arms its timer before fetch and clears it in the finally block, as
\* soon as fetch has settled: the timer runs while the response headers are awaited
\* and no longer while the caller reads the body; generateContent is awaited without
\* any timer
TimerArmed(phase) == phase = "headers"

\* What an await comes to: the awaited step is delivered, or an armed timer aborts it;
\* otherwise the await never settles
AwaitSettles(delivered, phase) == delivered \/ TimerArmed(phase)

\* The answers whose body is never delivered after the headers came, with a status
\* that is OK ("bodystall") or not ("notok_bodystall")
BodyStalls == {"bodystall", "notok_bodystall"}

\* The awaits of an adapter on one call, fetchWithTimeout and then the body read (if
\* the adapter reads the body of this answer), all settle
CallSettles(reply, readsBody) ==
    /\ AwaitSettles(reply.kind # "timeout", "headers")
    /\ readsBody => AwaitSettles(reply.kind \notin BodyStalls, "body")

\* fetchKciPapers reads the body whatever the status; fetchJStagePapers and
\* fetchSemanticScholarPapers return [] without reading it when the status is not OK
ReadsBody(a, reply) ==
    /\ reply.kind \notin {"timeout", "neterr"}
    /\ a \in {"jstage", "ss"} => reply.kind \notin {"notok", "notok_bodystall"}

HttpCall(api, term, max, timeoutMs) ==
    [api |-> api, term |-> term, clauses |-> <<>>, max |-> max, timeoutMs |-> timeoutMs]

\* What a backend serves for a request capped at max (retmax, displayCount, count,
\* limit): at most max entries of its matches when max is a count
Serve(matches, max) ==
    IF ~max.nan /\ max.v >= 0 THEN SubSeq(matches, 1, Min(max.v, Len(matches)))
    ELSE matches

\* fetchPubmedPapers up to its first await: the empty-query return, or the ESearch call
fetchPubmedPapers(query, opts, log) ==
    IF query = <<>> THEN [st |-> Returned([Idle EXCEPT !.query = query], <<>>), calls |-> log]
    ELSE [st |-> [Idle EXCEPT !.pc = "esearch", !.query = query,
                              !.max = MergedMaxResults(opts)],
          calls |-> Append(log, [HttpCall("esearch", query, MergedMaxResults(opts),
                                          DefaultTimeoutMs)
                                     EXCEPT !.clauses = SearchClauses(opts)])]

\* fetchKciPapers, fetchJStagePapers, fetchSemanticScholarPapers up to the first await:
\* the empty-query return, for KCI the missing-key return, or the search call
fetchSingle(a, query, opts, log, haveKey) ==
    IF query = <<>> THEN [st |-> Returned([Idle EXCEPT !.query = query], <<>>), calls |-> log]
    ELSE IF a = "kci" /\ ~haveKey
    THEN [st |-> Returned([Idle EXCEPT !.query = query], <<>>), calls |-> log]
    ELSE [st |-> [Idle EXCEPT !.pc = "fetch", !.query = query,
                              !.max = MergedMaxResults(opts)],
          calls |-> Append(log, HttpCall(a, query, MergedMaxResults(opts),
                                         DefaultTimeoutMs))]

\* The adapter that issues the batch call whatever phase 1 gave
PubmedAfterESearch_alwaysFetch(st, reply, log) ==
    [st |-> [st EXCEPT !.pc = "efetch", !.ids = reply.ids],
     calls |-> Append(log, HttpCall("efetch", reply.ids, Num(Len(reply.ids)),
                                    BatchTimeoutMs))]

\* The rest of the try block of fetchPubmedPapers after ESearch settled, up to the
\* EFetch call; a failure before ids is assigned ends in `return []` of the catch block
PubmedAfterESearch(st, reply, log) ==
    LET ids == IF reply.kind = "ok" THEN Serve(reply.ids, st.max) ELSE <<>>
    IN  IF reply.kind # "ok" THEN [st |-> Caught(st, <<>>), calls |-> log]
        ELSE IF ids = <<>> THEN [st |-> Returned(st, <<>>), calls |-> log]
        ELSE [st |-> [st EXCEPT !.pc = "efetch", !.ids = ids],
              calls |-> Append(log, HttpCall("efetch", ids, Num(Len(ids)), BatchTimeoutMs))]

\* The kinds of EFetch outcome that throw inside the try block: fetchWithTimeout
\* rejects, res.ok is false, res.text() rejects, or parser.parse throws
EFetchThrows == {"timeout", "neterr", "notok", "bodyerr", "malformed_rejected"}

\* The list fetchPubmedPapers returns once EFetch settled
PubmedAfterEFetch(st, reply) ==
    IF reply.kind \in EFetchThrows
    THEN [i \in 1..Len(st.ids) |-> PubmedPlaceholder(st.ids[i])]
    ELSE IF reply.kind = "malformed_accepted" THEN <<>>
    ELSE LET articles == Serve(reply.articles, Num(Len(st.ids)))
         IN  [i \in 1..Len(articles) |-> PubmedArticleToPaper(articles[i])]

\* The kinds of outcome that throw inside the try block of a single-fetch adapter:
\* fetchWithTimeout rejects, or the body does not parse; a status that is not OK is
\* answered with `return []`
FetchThrows == {"timeout", "neterr", "malformed"}

\* The list a single-fetch adapter returns once its call settled; rnd[i] is the random
\* suffix drawn for entry i
SingleAfterFetch(a, st, reply, rnd) ==
    IF reply.kind # "ok" THEN <<>>
    ELSE LET served == Serve(reply.records, st.max)
         IN  [i \in 1..Len(served) |->
                 CASE a = "kci" -> KciRecordToPaper(served[i], rnd[i])
                   [] a = "jstage" -> JStageEntryToPaper(served[i], rnd[i])
                   [] a = "ss" -> SemanticScholarToPaper(served[i])]

\* new Date().toLocaleDateString('ja-JP') on the day of the request
Today == "2026/11/6"

\* fetchKampoFormulaDetails: null when one of the three parallel calls rejects or a
\* body read throws, or when the info response is not OK; else the formula's paper
KampoDropsFormula(sub) ==
    \/ sub.info # "ok"
    \/ sub.crude \in {"timeout", "badjson"}
    \/ sub.disease \in {"timeout", "badjson"}

\* fetchKampoFormulaDetails waits for ever: the three calls were answered, the info
\* status is OK, and a body it reads in turn (info, then crude and disease when their
\* status is OK) is never delivered
KampoStalls(sub) ==
    /\ "timeout" \notin {sub.info, sub.crude, sub.disease}
    /\ \/ ~AwaitSettles(sub.info # "bodystall", "body")
       \/ /\ sub.info = "ok"
          /\ \/ ~AwaitSettles(sub.crude # "bodystall", "body")
             \/ /\ sub.crude \in {"ok", "notok"}
                /\ ~AwaitSettles(sub.disease # "bodystall", "body")

KampoFormulaPaper(id) ==
    Paper("kampodb_" \o id, "[Kampo] name (name_jp)", "Toyama University (KampoDB)", Today,
          "[crude drugs] [diseases]",
          "https://wakanmoview.inm.u-toyama.ac.jp/kampo/formula/" \o id, "KampoDB")

RECURSIVE KampoCalls(_)
KampoCalls(formulaIds) ==
    IF formulaIds = <<>> THEN <<>>
    ELSE <<HttpCall("kampo_info", <<Head(formulaIds)>>, Num(1), DefaultTimeoutMs),
           HttpCall("kampo_crude", <<Head(formulaIds)>>, Num(1), DefaultTimeoutMs),
           HttpCall("kampo_disease", <<Head(formulaIds)>>, Num(1), DefaultTimeoutMs)>>
             \o KampoCalls(Tail(formulaIds))

\* fetchKampoPapers up to its first await: the empty-list return, or the three calls of
\* every formula
fetchKampoPapers(formulaIds, log) ==
    IF formulaIds = <<>> THEN [st |-> Returned(Idle, <<>>), calls |-> log]
    ELSE [st |-> [Idle EXCEPT !.pc = "fetch", !.ids = formulaIds],
          calls |-> log \o KampoCalls(formulaIds)]

\* results.filter(p => p !== null)
RECURSIVE KampoResults(_, _)
KampoResults(formulaIds, subs) ==
    IF formulaIds = <<>> THEN <<>>
    ELSE (IF KampoDropsFormula(subs[Head(formulaIds)]) THEN <<>>
          ELSE <<KampoFormulaPaper(Head(formulaIds))>>)
             \o KampoResults(Tail(formulaIds), subs)

-----------------------------------------------------------------------------
(* Combine and sort (the handler's step 3) *)

\* new Date(date.replace(/\//g, '-')).getTime(), in months; NaN for an Invalid Date
GetTime(date) ==
    CASE date = "2021" -> Num(2021 * 12)
      [] date = "2022" -> Num(2022 * 12)
      [] date = "2023 Mar" -> Num(2023 * 12 + 2)
      [] date = "2026/11/6" -> Num(2026 * 12 + 10)
      [] date = "2027" -> Num(2027 * 12)
      [] OTHER -> NaN

\* The comparator (a, b) => dateB.getTime() - dateA.getTime(), as Array.prototype.sort
\* reads it: a NaN result counts as +0
Compare(a, b) ==
    LET ta == GetTime(a.date)
        tb == GetTime(b.date)
    IN  IF ta.nan \/ tb.nan THEN 0 ELSE tb.v - ta.v

Reverse(s) == [i \in 1..Len(s) |-> s[Len(s) + 1 - i]]

\* Array.prototype.sort of the runtime on a short array: the leading run is found (and
\* reversed when strictly descending), then the rest is inserted by binary search
RECURSIVE RunLength(_, _, _)
RunLength(s, desc, idx) ==
    IF idx > Len(s) THEN idx - 1
    ELSE LET order == Compare(s[idx], s[idx - 1])
         IN  IF (desc /\ order >= 0) \/ (~desc /\ order < 0) THEN idx - 1
             ELSE RunLength(s, desc, idx + 1)

RECURSIVE InsertionPoint(_, _, _, _)
InsertionPoint(w, pivot, left, right) ==
    IF left >= right THEN left
    ELSE LET mid == left + ((right - left) \div 2)
         IN  IF Compare(pivot, w[mid]) < 0 THEN InsertionPoint(w, pivot, left, mid)
             ELSE InsertionPoint(w, pivot, mid + 1, right)

RECURSIVE InsertFrom(_, _)
InsertFrom(s, start) ==
    IF start > Len(s) THEN s
    ELSE LET pivot == s[start]
             pos == InsertionPoint(s, pivot, 1, start)
         IN  InsertFrom(SubSeq(s, 1, pos - 1) \o <<pivot>> \o SubSeq(s, pos, start - 1)
                            \o SubSeq(s, start + 1, Len(s)),
                        start + 1)

Sort(s) ==
    IF Len(s) < 2 THEN s
    ELSE LET desc == Compare(s[2], s[1]) < 0
             run == RunLength(s, desc, 3)
             made == IF desc THEN Reverse(SubSeq(s, 1, run)) \o SubSeq(s, run + 1, Len(s))
                     ELSE s
         IN  InsertFrom(made, run + 1)

\* One entry of the Promise.allSettled result
Settled(st) ==
    IF st.pc = "rejected" THEN [status |-> "rejected", value |-> <<>>]
    ELSE [status |-> "fulfilled", value |-> st.value]

\* (result.status === 'fulfilled' && Array.isArray(result.value)) ? result.value : []
PapersOf(result) == IF result.status = "fulfilled" THEN result.value ELSE <<>>

NoMeta ==
    [query |-> <<>>, hasTranslated |-> FALSE, translatedQuery |-> <<>>,
     pubmedCount |-> 0, kciCount |-> 0, totalCount |-> 0]

NoResponse == [status |-> 0, papers |-> <<>>, hasMeta |-> FALSE, meta |-> NoMeta]

\* NextResponse.json({ papers: [] })
EmptyResponse == [status |-> 200, papers |-> <<>>, hasMeta |-> FALSE, meta |-> NoMeta]

\* The combination that forgets the second adapter's list
Combined_pubmedOnly(pubmedPapers, kciPapers) == Sort(pubmedPapers)

\* The response whose pubmedCount counts the records of every backend
SearchResponse_countsCombined(query, english, pubmedPapers, kciPapers) ==
    [status |-> 200, papers |-> Sort(pubmedPapers \o kciPapers), hasMeta |-> TRUE,
     meta |-> [query |-> query,
               hasTranslated |-> english # query,
               translatedQuery |-> IF english # query THEN english ELSE <<>>,
               pubmedCount |-> Len(pubmedPapers) + Len(kciPapers),
               kciCount |-> Len(kciPapers),
               totalCount |-> Len(pubmedPapers) + Len(kciPapers)]]

\* The response that is an error when no backend contributed
SearchResponse_errorWhenEmpty(query, english, pubmedPapers, kciPapers) ==
    IF pubmedPapers \o kciPapers = <<>>
    THEN [status |-> 500, papers |-> <<>>, hasMeta |-> FALSE, meta |-> NoMeta]
    ELSE SearchResponse_countsCombined(query, english, pubmedPapers, <<>>)

\* The combination that takes the two lists in the order in which the adapters settled
Combined_completionOrder(pubmedPapers, kciPapers) ==
    IF ad["kci"].at < ad["pubmed"].at THEN Sort(kciPapers \o pubmedPapers)
    ELSE Sort(pubmedPapers \o kciPapers)

\* The try block of step 3: combine, sort, and the response with its meta
Combined(pubmedPapers, kciPapers) == Sort(pubmedPapers \o kciPapers)

SearchResponse(query, english, pubmedPapers, kciPapers) ==
    LET combined == Combined(pubmedPapers, kciPapers)
    IN  [status |-> 200, papers |-> combined, hasMeta |-> TRUE,
         meta |-> [query |-> query,
                   hasTranslated |-> english # query,
                   translatedQuery |-> IF english # query THEN english ELSE <<>>,
                   pubmedCount |-> Len(pubmedPapers),
                   kciCount |-> Len(kciPapers),
                   totalCount |-> Len(combined)]]

-----------------------------------------------------------------------------
(* The GET handler of /api/papers *)

\* The handler without its empty-query return
IsEmptyQuery_never(query) == FALSE

\* if (!query) return NextResponse.json({ papers: [] })
IsEmptyQuery(query) == query = <<>>

\* maxResults: Math.min(limit, 20) with limit = parseInt(get('limit') || '10', 10)
ClampedMaxResults(limitParam) ==
    MathMin(ParseInt(OrDefault(limitParam, <<"1", "0">>)), Num(MaxResultsCap))

\* englishQuery after the try/catch around generateContent: the cleaned response text,
\* or the raw query when the call threw
Expanded(query, reply) ==
    IF reply.kind = "throw" THEN query ELSE CleanExpansion(reply.text)

Query == OrDefault(req.q, <<>>)
Category == OrDefault(req.category, <<>>)

\* const options: SearchOptions = { maxResults: Math.min(limit, 20), sort, mode,
\* fullTextOnly, category } with mode = get('mode') || 'general' and
\* fullTextOnly = get('fullTextOnly') === 'true'
HandlerOptions(r) ==
    WithMode(WithMax(ClampedMaxResults(r.limit)), OrDefault(r.mode, <<"general">>),
             r.fullTextOnly = Given(<<"true">>))

\* Promise.allSettled([fetchPubmedPapers(englishQuery, options), fetchKciPapers(query,
\* options)]): both adapters run to their first await, in this order
StartFetch(english, opts) ==
    LET p == fetchPubmedPapers(english, opts, calls)
        k == fetchSingle("kci", Query, opts, p.calls, upstream.kciKey)
    IN  /\ ad' = [ad EXCEPT !["pubmed"] = p.st, !["kci"] = k.st]
        /\ calls' = k.calls
        /\ englishQuery' = english
        /\ pc' = "fetching"

\* The handler from its entry to its first await (or to its return for an empty query)
GET ==
    /\ pc = "start"
    /\ IF IsEmptyQuery(Query)
       THEN /\ response' = EmptyResponse
            /\ pc' = "done"
            /\ UNCHANGED <<options, englishQuery, genCalls, calls, ad>>
       ELSE /\ options' = HandlerOptions(req)
            /\ IF NeedsExpansion(Query, Category)
               THEN /\ genCalls' = genCalls + 1
                    /\ pc' = "expanding"
                    /\ englishQuery' = Query
                    /\ UNCHANGED <<calls, ad, response>>
               ELSE /\ StartFetch(Query, HandlerOptions(req))
                    /\ UNCHANGED <<genCalls, response>>
    /\ UNCHANGED <<req, upstream>>
    /\ UNCHANGED auxVars

\* The handler that asks the text-generation service again when the answer arrives
ExpansionSettled_reinvoked ==
    /\ pc = "expanding"
    /\ AwaitSettles(upstream.gen.kind # "never", "expansion")
    /\ StartFetch(Expanded(Query, upstream.gen), options)
    /\ genCalls' = genCalls + 1
    /\ UNCHANGED <<req, upstream, options, response>>
    /\ UNCHANGED auxVars

\* generateContent settled: englishQuery is set and the adapters are started
ExpansionSettled ==
    /\ pc = "expanding"
    /\ AwaitSettles(upstream.gen.kind # "never", "expansion")
    /\ StartFetch(Expanded(Query, upstream.gen), options)
    /\ UNCHANGED <<req, upstream, options, genCalls, response>>
    /\ UNCHANGED auxVars

\* Promise.allSettled resolved: combine, sort and respond
Aggregate ==
    /\ pc = "fetching"
    /\ IsSettled(ad["pubmed"])
    /\ IsSettled(ad["kci"])
    /\ response' = SearchResponse(Query, englishQuery, PapersOf(Settled(ad["pubmed"])),
                                  PapersOf(Settled(ad["kci"])))
    /\ pc' = "done"
    /\ UNCHANGED <<req, upstream, options, englishQuery, genCalls, calls, ad>>
    /\ UNCHANGED auxVars

-----------------------------------------------------------------------------
(* The federated handler: the fetch over every enabled adapter and the aggregation
   with the formulary records pinned first *)

\* a stands strictly before b: parsed dates descending, unparsable dates last
DateBefore(a, b) ==
    /\ ~GetTime(a.date).nan
    /\ GetTime(b.date).nan \/ GetTime(a.date).v > GetTime(b.date).v

RECURSIVE InsertByDate(_, _)
InsertByDate(sorted, x) ==
    IF sorted = <<>> THEN <<x>>
    ELSE IF DateBefore(x, Head(sorted)) THEN <<x>> \o sorted
    ELSE <<Head(sorted)>> \o InsertByDate(Tail(sorted), x)

RECURSIVE SortByDate(_)
SortByDate(s) ==
    IF s = <<>> THEN <<>>
    ELSE InsertByDate(SortByDate(SubSeq(s, 1, Len(s) - 1)), s[Len(s)])

Truncate(s, max) == IF max.nan \/ max.v < 0 THEN <<>> ELSE SubSeq(s, 1, Min(max.v, Len(s)))

\* The aggregation that sorts the formulary records by date with the others
FederatedRecords_unpinned(formulary, others, max) ==
    Truncate(SortByDate(formulary \o others), max)

\* Sort by date, pin the formulary records first, truncate to maxResults
FederatedRecords(formulary, others, max) == Truncate(formulary \o SortByDate(others), max)

\* The source group of the request: sourceType, 'papers' when left out
SourceGroup(r) == OrDefault(r.sourceType, <<"papers">>)

\* The trials adapter enabled for every source group
TrialsEnabled_always(group) == TRUE

\* The clinical-trials adapter is active only for the source group 'trials'
TrialsEnabled(group) == group = <<"trials">>

\* The adapters a source group enables
EnabledAdapters(group) ==
    IF TrialsEnabled(group) THEN {"trials"} ELSE {"pubmed", "kci", "kampo"}

\* The clinical-trials adapter: one keyword query against the registry
fetchTrials(query, opts, log) ==
    IF query = <<>> THEN [st |-> Returned([Idle EXCEPT !.query = query], <<>>), calls |-> log]
    ELSE [st |-> [Idle EXCEPT !.pc = "fetch", !.query = query,
                              !.max = MergedMaxResults(opts)],
          calls |-> Append(log, HttpCall("trials", query, MergedMaxResults(opts),
                                         DefaultTimeoutMs))]

TrialToPaper(t) ==
    Paper("trial_" \o t.nctId, "Title", "Sponsor", t.startDate, "Summary",
          "https://clinicaltrials.gov/study/" \o t.nctId, "ClinicalTrials")

TrialsAfterFetch(st, reply) ==
    IF reply.kind # "ok" THEN <<>>
    ELSE LET served == Serve(reply.records, st.max)
         IN  [i \in 1..Len(served) |-> TrialToPaper(served[i])]

FederatedFetch ==
    /\ pc = "plan"
    /\ options' = HandlerOptions(req)
    /\ IF TrialsEnabled(SourceGroup(req))
       THEN LET t == fetchTrials(Query, options', calls)
            IN  /\ ad' = [ad EXCEPT !["trials"] = t.st]
                /\ calls' = t.calls
       ELSE LET p == fetchPubmedPapers(Query, options', calls)
                k == fetchSingle("kci", Query, options', p.calls, upstream.kciKey)
                f == fetchKampoPapers(upstream.kampoIds, k.calls)
            IN  /\ ad' = [ad EXCEPT !["pubmed"] = p.st, !["kci"] = k.st, !["kampo"] = f.st]
                /\ calls' = f.calls
    /\ englishQuery' = Query
    /\ pc' = "federated_fetching"
    /\ UNCHANGED <<req, upstream, genCalls, response>>
    /\ UNCHANGED auxVars

FederatedAggregate ==
    /\ pc = "federated_fetching"
    /\ \A a \in EnabledAdapters(SourceGroup(req)) : IsSettled(ad[a])
    /\ LET records == FederatedRecords(PapersOf(Settled(ad["kampo"])),
                                       PapersOf(Settled(ad["pubmed"]))
                                           \o PapersOf(Settled(ad["kci"]))
                                           \o PapersOf(Settled(ad["trials"])),
                                       options.maxResults)
       IN  response' = [status |-> 200, papers |-> records, hasMeta |-> TRUE,
                        meta |-> [NoMeta EXCEPT !.query = Query,
                                                !.pubmedCount = Len(ad["pubmed"].value),
                                                !.kciCount = Len(ad["kci"].value),
                                                !.totalCount = Len(records)]]
    /\ pc' = "federated_done"
    /\ UNCHANGED <<req, upstream, options, englishQuery, genCalls, calls, ad>>
    /\ UNCHANGED auxVars

-----------------------------------------------------------------------------
(* The adapters' continuations *)

PubmedESearchSettled ==
    /\ ad["pubmed"].pc = "esearch"
    /\ CallSettles(upstream.esearch, upstream.esearch.kind \notin {"timeout", "neterr"})
    /\ LET r == PubmedAfterESearch(ad["pubmed"], upstream.esearch, calls)
       IN  /\ ad' = [ad EXCEPT !["pubmed"] = r.st]
           /\ calls' = r.calls
    /\ UNCHANGED <<req, upstream, pc, options, englishQuery, genCalls, response>>
    /\ UNCHANGED auxVars

PubmedEFetchSettled ==
    /\ ad["pubmed"].pc = "efetch"
    /\ CallSettles(upstream.efetch, upstream.efetch.kind \notin {"timeout", "neterr", "notok"})
    /\ ad' = [ad EXCEPT !["pubmed"] =
                 IF upstream.efetch.kind \in EFetchThrows
                 THEN Caught(ad["pubmed"], PubmedAfterEFetch(ad["pubmed"], upstream.efetch))
                 ELSE Returned(ad["pubmed"],
                               PubmedAfterEFetch(ad["pubmed"], upstream.efetch))]
    /\ UNCHANGED <<req, upstream, pc, options, englishQuery, genCalls, calls, response>>
    /\ UNCHANGED auxVars

SingleFetchSettled(a) ==
    /\ ad[a].pc = "fetch"
    /\ CallSettles(upstream[a], ReadsBody(a, upstream[a]))
    /\ \E rnd \in [1..MaxRecords -> RandomSuffixes] :
          ad' = [ad EXCEPT ![a] =
                    IF upstream[a].kind \in FetchThrows
                    THEN Caught(ad[a], SingleAfterFetch(a, ad[a], upstream[a], rnd))
                    ELSE Returned(ad[a], SingleAfterFetch(a, ad[a], upstream[a], rnd))]
    /\ UNCHANGED <<req, upstream, pc, options, englishQuery, genCalls, calls, response>>
    /\ UNCHANGED auxVars

\* fetchKampoPapers after every formula's three calls settled
KampoSettled ==
    /\ ad["kampo"].pc = "fetch"
    /\ \A id \in Range(ad["kampo"].ids) : ~KampoStalls(upstream.kampo[id])
    /\ ad' = [ad EXCEPT !["kampo"] =
                 Returned(ad["kampo"], KampoResults(ad["kampo"].ids, upstream.kampo))]
    /\ UNCHANGED <<req, upstream, pc, options, englishQuery, genCalls, calls, response>>
    /\ UNCHANGED auxVars

\* The trials registry answered (or the call failed)
TrialsSettled ==
    /\ ad["trials"].pc = "fetch"
    /\ ad' = [ad EXCEPT !["trials"] =
                 Returned(ad["trials"], TrialsAfterFetch(ad["trials"], upstream.trials))]
    /\ UNCHANGED <<req, upstream, pc, options, englishQuery, genCalls, calls, response>>
    /\ UNCHANGED auxVars

\* The client goes away while the handler is suspended: the request's signal is
\* aborted.  The handler reads no signal and fetchWithTimeout owns its AbortController,
\* so nothing else changes
InFlight(a) == ad[a].pc \in {"esearch", "efetch", "fetch"}

Cancel ==
    /\ pc \in {"expanding", "fetching", "federated_fetching"}
    /\ ~req.aborted
    /\ req' = [req EXCEPT !.aborted = TRUE]
    /\ UNCHANGED <<upstream, pc, options, englishQuery, genCalls, calls, ad, response>>
    /\ UNCHANGED auxVars

\* An adapter called on its own (the diagnostic scripts, the abstract route)
DirectCall(a, query, opts) ==
    /\ pc = "idle"
    /\ \A b \in AllAdapters : ad[b].pc = "idle"
    /\ LET r == IF a = "pubmed" THEN fetchPubmedPapers(query, opts, calls)
                ELSE fetchSingle(a, query, opts, calls, upstream.kciKey)
       IN  /\ ad' = [ad EXCEPT ![a] = r.st]
           /\ calls' = r.calls
    /\ options' = opts
    /\ UNCHANGED <<req, upstream, pc, englishQuery, genCalls, response>>
    /\ UNCHANGED auxVars

\* fetchKampoPapers called on its own with a list of formula identifiers
DirectKampoCall(formulaIds) ==
    /\ pc = "idle"
    /\ \A b \in AllAdapters : ad[b].pc = "idle"
    /\ LET r == fetchKampoPapers(formulaIds, calls)
       IN  /\ ad' = [ad EXCEPT !["kampo"] = r.st]
           /\ calls' = r.calls
    /\ UNCHANGED <<req, upstream, pc, options, englishQuery, genCalls, response>>
    /\ UNCHANGED auxVars

-----------------------------------------------------------------------------
(* Requests and upstream answers *)

Param(S) == {Absent} \cup {Given(t) : t \in S}

\* The URL parameters of a request, and whether its signal is aborted (the client went
\* away)
Request(q, limit, category) ==
    [q |-> q, limit |-> limit, category |-> category, mode |-> Absent,
     fullTextOnly |-> Absent, sourceType |-> Absent, aborted |-> FALSE]

GenThrows == [kind |-> "throw", text |-> <<>>]
GenText(t) == [kind |-> "text", text |-> t]
GenNever == [kind |-> "never", text |-> <<>>]
GenReplies == {GenThrows} \cup {GenText(t) : t \in SeqsUpTo(TextChars, MaxTextLen)}

ESearchFails(kind) == [kind |-> kind, ids |-> <<>>]
ESearchOk(ids) == [kind |-> "ok", ids |-> ids]
ESearchReplies ==
    {ESearchFails(k) : k \in {"timeout", "neterr", "badjson"}}
        \cup {ESearchOk(ids) : ids \in SeqsUpTo({"1", "2"}, MaxIds)}

Article(pmid, article, pubDate, year, month) ==
    [pmid |-> pmid, article |-> article, pubDate |-> pubDate, year |-> year, month |-> month]

\* PubmedArticle elements: with and without PMID, Article and PubDate
ArticleShapes ==
    {Article("1", TRUE, TRUE, "2021", ""), Article("1", TRUE, TRUE, "2023", "Mar"),
     Article("2", TRUE, FALSE, "", ""), Article("2", TRUE, TRUE, "2021", ""),
     Article("", FALSE, FALSE, "", "")}

EFetchFails(kind) == [kind |-> kind, articles |-> <<>>]
EFetchOk(articles) == [kind |-> "ok", articles |-> articles]
EFetchFailures == {EFetchFails(k) : k \in EFetchThrows \cup {"malformed_accepted"}}
EFetchAnswers == {EFetchOk(as) : as \in SeqsUpTo(ArticleShapes, MaxArticles)}

KciRecord(articleId, pubYear) == [articleId |-> articleId, pubYear |-> pubYear]
KciShapes == {KciRecord("7", "2022"), KciRecord("", "2022"), KciRecord("7", "")}

JStageEntry(path, pubyear) == [path |-> path, pubyear |-> pubyear]
JStageShapes == {JStageEntry(<<"article", "j1">>, "2022"), JStageEntry(<<>>, "")}

SemanticScholarPaper(paperId, year) == [paperId |-> paperId, year |-> year]
SemanticScholarShapes == {SemanticScholarPaper("s1", "2021"), SemanticScholarPaper("", "")}

FetchFails(kind) == [kind |-> kind, records |-> <<>>]
FetchOk(records) == [kind |-> "ok", records |-> records]
FetchFailures == {FetchFails(k) : k \in {"timeout", "neterr", "notok", "malformed"}}
FetchReplies(shapes) == FetchFailures \cup {FetchOk(rs) : rs \in SeqsUpTo(shapes, MaxRecords)}

FormulaIds == {"KT1", "KT2"}
SubFetches(info, crude, disease) == [info |-> info, crude |-> crude, disease |-> disease]
KampoAllOk == [id \in FormulaIds |-> SubFetches("ok", "ok", "ok")]

\* kampoIds: the formula identifiers the expansion plan recommends
Upstream(gen, esearch, efetch, kci, kciKey, jstage, ss) ==
    [gen |-> gen, esearch |-> esearch, efetch |-> efetch, kci |-> kci, kciKey |-> kciKey,
     jstage |-> jstage, ss |-> ss, kampoIds |-> <<>>, kampo |-> KampoAllOk,
     trials |-> FetchOk(<<>>)]

OneArticle == <<Article("1", TRUE, TRUE, "2021", "")>>
TwoArticles == <<Article("1", TRUE, TRUE, "2021", ""), Article("2", TRUE, TRUE, "2023", "Mar")>>
OneKciRecord == <<KciRecord("7", "2022")>>
TwoKciRecords == <<KciRecord("7", "2022"), KciRecord("8", "")>>

\* Requests of every query text and category, over a plain upstream
QueryCases ==
    {[req |-> Request(q, Absent, c),
      upstream |-> Upstream(g, e, EFetchOk(OneArticle), FetchOk(OneKciRecord), TRUE,
                            FetchOk(<<>>), FetchOk(<<>>))] :
        q \in Param(SeqsUpTo(QueryChars, MaxQueryLen)), c \in Param({<<"a">>}),
        g \in GenReplies, e \in {ESearchOk(<<"1">>), ESearchFails("timeout")}}

\* Requests of every limit text
LimitCases ==
    {[req |-> Request(Given(<<"a">>), l, Absent),
      upstream |-> Upstream(GenThrows, ESearchOk(<<"1", "2">>), f, FetchOk(TwoKciRecords),
                            TRUE, FetchOk(<<>>), FetchOk(<<>>))] :
        l \in Param(SeqsUpTo(LimitChars, MaxLimitLen)),
        f \in {EFetchOk(TwoArticles), EFetchFails("timeout")}}

\* Requests of every mode and fullTextOnly parameter
ModeParams == {<<"general">>, <<"clinical">>, <<"evidence">>, <<"latest">>}
ModeCases ==
    {[req |-> [Request(Given(<<"a">>), Absent, Absent) EXCEPT !.mode = m, !.fullTextOnly = f],
      upstream |-> Upstream(GenThrows, e, EFetchOk(OneArticle), FetchOk(OneKciRecord), TRUE,
                            FetchOk(<<>>), FetchOk(<<>>))] :
        m \in Param(ModeParams), f \in Param({<<"true">>, <<"1">>}),
        e \in {ESearchOk(<<"1">>), ESearchOk(<<>>)}}

\* Backends that answer the headers and never the body, and an expansion that never
\* returns
StallCases ==
    {[req |-> Request(Given(q), Absent, Absent),
      upstream |-> Upstream(g, e, f, k, TRUE, FetchOk(<<>>), FetchOk(<<>>))] :
        q \in {<<"a">>, <<"k">>}, g \in {GenNever, GenText(<<"a">>)},
        e \in {ESearchOk(<<"1">>), ESearchFails("bodystall"), ESearchFails("timeout")},
        f \in {EFetchOk(OneArticle), EFetchFails("bodystall"), EFetchFails("timeout")},
        k \in {FetchOk(OneKciRecord), FetchFails("bodystall"), FetchFails("notok_bodystall"),
               FetchFails("timeout")}}

\* Every upstream answer to a plain request
FetchCases ==
    {[req |-> Request(Given(<<"a">>), l, Absent),
      upstream |-> Upstream(GenText(<<"a">>), w[1], w[2], k[1], k[2], FetchOk(<<>>),
                            FetchOk(<<>>))] :
        l \in {Absent, Given(<<"1">>)},
        w \in (ESearchReplies \X {EFetchFails(x) : x \in EFetchThrows})
                 \cup ({ESearchOk(<<"1", "2">>)} \X (EFetchAnswers \cup EFetchFailures)),
        k \in (FetchReplies(KciShapes) \X {TRUE}) \cup {<<FetchOk(OneKciRecord), FALSE>>}}

\* The answers of the three endpoints of a formula: OK, a status that is not OK, no
\* answer within the timeout, or an OK answer whose body is not JSON
KampoSubShapes ==
    {SubFetches("ok", "ok", "ok"), SubFetches("notok", "ok", "ok"),
     SubFetches("ok", "notok", "ok"), SubFetches("ok", "ok", "notok"),
     SubFetches("timeout", "ok", "ok"), SubFetches("ok", "ok", "timeout"),
     SubFetches("ok", "badjson", "ok"), SubFetches("badjson", "ok", "ok")}

KampoCases ==
    {[Upstream(GenThrows, ESearchOk(<<"1">>), EFetchOk(OneArticle), FetchOk(OneKciRecord),
               TRUE, FetchOk(<<>>), FetchOk(<<>>))
          EXCEPT !.kampo = subs] :
        subs \in [FormulaIds -> KampoSubShapes]}

\* Upstream answers to an adapter called on its own
DirectCases ==
    {Upstream(GenThrows, e, f, k, TRUE, j, s) :
        e \in {ESearchOk(<<"1">>), ESearchFails("neterr")},
        f \in {EFetchOk(OneArticle), EFetchFails("notok")},
        k \in {FetchOk(OneKciRecord)},
        j \in {FetchOk(<<j1>>) : j1 \in JStageShapes}
                 \cup {FetchFails("notok"), FetchFails("notok_bodystall")},
        s \in {FetchOk(<<s1>>) : s1 \in SemanticScholarShapes}
                 \cup {FetchFails("timeout"), FetchFails("bodystall")}}

\* Requests whose plan recommends formulas, over the outcomes of the formula calls
FederatedCases ==
    {[req |-> Request(Given(<<"k">>), l, Given(<<"a">>)),
      upstream |-> [Upstream(GenText(<<"a">>), ESearchOk(<<"1", "2">>), EFetchOk(as),
                             FetchOk(OneKciRecord), TRUE, FetchOk(<<>>), FetchOk(<<>>))
                        EXCEPT !.kampoIds = ids, !.kampo = subs]] :
        l \in {Absent, Given(<<"1">>)},
        as \in {TwoArticles, <<Article("1", TRUE, TRUE, "2027", "")>>,
                 <<Article("2", TRUE, FALSE, "", "")>>},
        ids \in SeqsUpTo(FormulaIds, MaxFormulas),
        subs \in [FormulaIds -> {SubFetches("ok", "ok", "ok"), SubFetches("notok", "ok", "ok"),
                                 SubFetches("ok", "notok", "ok"),
                                 SubFetches("ok", "ok", "timeout"),
                                 SubFetches("ok", "bodystall", "ok")}]}

Trial(nctId, startDate) == [nctId |-> nctId, startDate |-> startDate]

\* Requests of either source group, over the answers of the trials registry
SourceGroupCases ==
    {[req |-> [Request(Given(<<"a">>), l, Absent) EXCEPT !.sourceType = g],
      upstream |-> [Upstream(GenThrows, e, EFetchOk(OneArticle), FetchOk(OneKciRecord), TRUE,
                             FetchOk(<<>>), FetchOk(<<>>))
                        EXCEPT !.kampoIds = ids, !.trials = t]] :
        l \in {Absent, Given(<<"1">>)},
        g \in Param({<<"trials">>, <<"papers">>}),
        e \in {ESearchOk(<<"1">>), ESearchFails("timeout")},
        ids \in {<<>>, <<"KT1">>},
        t \in {FetchOk(<<>>), FetchOk(<<Trial("N1", "2022")>>),
               FetchOk(<<Trial("N1", "2022"), Trial("N2", "2021")>>), FetchFails("timeout")}}

DirectQueries == {<<>>, <<"a">>}
DirectOptions ==
    {NoOptions, WithMax(Num(1))}
        \cup {WithMode(NoOptions, m, f) : m \in ModeParams, f \in BOOLEAN}

Quiescent ==
    /\ options = NoOptions
    /\ englishQuery = <<>>
    /\ genCalls = 0
    /\ calls = <<>>
    /\ ad = [a \in AllAdapters \cup {"trials"} |-> Idle]
    /\ response = NoResponse

Init ==
    /\ Quiescent
    /\ AuxIdle
    /\ \/ /\ pc = "start"
          /\ \E c \in QueryCases \cup LimitCases \cup FetchCases \cup ModeCases
                          \cup StallCases :
                req = c.req /\ upstream = c.upstream
       \/ /\ pc = "plan"
          /\ \E c \in FederatedCases \cup SourceGroupCases :
                req = c.req /\ upstream = c.upstream
       \/ /\ pc = "idle"
          /\ req = Request(Absent, Absent, Absent)
          /\ upstream \in DirectCases \cup KampoCases

Next ==
    \/ GET
    \/ ExpansionSettled
    \/ PubmedESearchSettled
    \/ PubmedEFetchSettled
    \/ \E a \in SingleFetchAdapters : SingleFetchSettled(a)
    \/ Aggregate
    \/ KampoSettled
    \/ TrialsSettled
    \/ FederatedFetch
    \/ FederatedAggregate
    \/ \E a \in Adapters, query \in DirectQueries, opts \in DirectOptions :
          DirectCall(a, query, opts)
    \/ \E formulaIds \in SeqsUpTo(FormulaIds, MaxFormulas) : DirectKampoCall(formulaIds)
    \/ Cancel

Spec == Init /\ [][Next]_vars

\* The requests of the handler over backends and an expansion service that answer,
\* fail, time out or stall
LiveInit ==
    /\ Quiescent
    /\ AuxIdle
    /\ pc = "start"
    /\ \E c \in StallCases : req = c.req /\ upstream = c.upstream

LiveNext ==
    \/ GET
    \/ ExpansionSettled
    \/ PubmedESearchSettled
    \/ PubmedEFetchSettled
    \/ SingleFetchSettled("kci")
    \/ Aggregate

\* Timers fire, backends that answer do answer, and the runtime resumes every function
\* whose await has settled
Fairness ==
    /\ WF_vars(GET)
    /\ WF_vars(ExpansionSettled)
    /\ WF_vars(PubmedESearchSettled)
    /\ WF_vars(PubmedEFetchSettled)
    /\ WF_vars(SingleFetchSettled("kci"))
    /\ WF_vars(Aggregate)

LiveSpec == LiveInit /\ [][LiveNext]_vars /\ Fairness

-----------------------------------------------------------------------------
(* The text functions called on their own *)

\* The parse-tree values of nesting depth at most d: the leaves, arrays of one or two
\* values, and elements with text, an attribute and a child element in every order
\* of the keys the parser produces
RECURSIVE Trees(_, _, _, _, _)
Trees(leaves, fills, texts, attrs, d) ==
    IF d = 0 THEN leaves
    ELSE LET sub == Trees(leaves, fills, texts, attrs, d - 1)
         IN  sub
             \cup {Arr(<<a>>) : a \in sub}
             \cup {Arr(<<a, b>>) : a \in sub, b \in fills}
             \cup {Arr(<<b, a>>) : a \in sub, b \in fills}
             \cup {Obj(<<Entry("#text", t), Entry("sub", a)>>) : t \in texts, a \in sub}
             \cup {Obj(<<Entry("sub", a), Entry("#text", t)>>) : t \in texts, a \in sub}
             \cup {Obj(<<Entry("@_lang", l), Entry("#text", t)>>) : l \in attrs, t \in texts}
             \cup {Obj(<<Entry("@_lang", l), Entry("sub", a)>>) : l \in attrs, a \in sub}
             \cup {Obj(<<Entry("sub", a), Entry("@_lang", l), Entry("#text", t)>>) :
                      a \in sub, l \in attrs, t \in texts}

\* Arguments of flattenText: "T" occurs in the own text of elements only, "A" in
\* attribute values only, "c" in the other strings
FlattenInputs ==
    Trees({Undefined, Null, Bool(TRUE), Number(<<"7">>), Str(<<"c">>), Str(<<" ", "c">>)},
          {Str(<<"c">>), Null},
          {Str(<<"T">>), Str(<<"T", " ">>)},
          {Str(<<"A">>)},
          MaxDepth)

\* Arguments of decodeEntities: the encodings of the strings over the characters of
\* the entities, those strings themselves, and two numeric references
EntityChars == {"&", "l", "t", ";", "<"}

RECURSIVE Encode(_)
Encode(t) ==
    IF t = <<>> THEN <<>>
    ELSE (CASE Head(t) = "&" -> Entity(<<"a", "m", "p">>)
            [] Head(t) = "<" -> Entity(<<"l", "t">>)
            [] Head(t) = ">" -> Entity(<<"g", "t">>)
            [] OTHER -> <<Head(t)>>) \o Encode(Tail(t))

DecodeInputs ==
    LET plain == SeqsUpTo(EntityChars, MaxEntityLen)
    IN  plain \cup {Encode(t) : t \in plain}
              \cup {<<"&", "#", "6", "0", ";">>, <<"&", "#", "x", "2", "6", ";", "l", "t", ";">>}

\* Title and abstract fields of a KCI record: a string, an array, an element
KciFields ==
    Trees({Str(t) : t \in SeqsUpTo({"H", " ", "G"}, MaxTitleLen)} \cup {Undefined},
          {Str(<<"G">>), Str(<<"H", " ">>)},
          {Str(<<"H">>), Str(<<"H", " ", " ", "G">>)},
          {Str(<<"korean">>), Str(<<"A">>)},
          1)

KciRecordTitles == {Undefined, Str(<<"H", " ", "G">>)}

TextCalls ==
    {[NoText EXCEPT !.fn = "flattenText", !.arg = v] : v \in FlattenInputs}
        \cup {[NoText EXCEPT !.fn = "decodeEntities", !.arg = Str(t)] : t \in DecodeInputs}
        \cup {[NoText EXCEPT !.fn = "kciTitle", !.arg = v, !.arg2 = w] :
                 v \in KciFields, w \in KciRecordTitles}
        \cup {[NoText EXCEPT !.fn = "kciAbstract", !.arg = v] : v \in KciFields}

\* The search handler is not running
MainIdle ==
    /\ Quiescent
    /\ pc = "off"
    /\ req = Request(Absent, Absent, Absent)
    /\ upstream = Upstream(GenThrows, ESearchOk(<<>>), EFetchOk(<<>>), FetchOk(<<>>), FALSE,
                           FetchOk(<<>>), FetchOk(<<>>))

TextInit ==
    /\ MainIdle
    /\ textCall \in TextCalls
    /\ cleanup = NoCleanup
    /\ tts = NoTts
    /\ summarize = NoSummarize

Pending(fn) == textCall.fn = fn /\ ~textCall.done

Result(out) == [textCall EXCEPT !.out = out, !.done = TRUE]

FlattenTextCall ==
    /\ Pending("flattenText")
    /\ textCall' = Result(flattenText(textCall.arg))
    /\ UNCHANGED <<mainVars, cleanup, tts, summarize>>

DecodeEntitiesCall ==
    /\ Pending("decodeEntities")
    /\ textCall' = Result(decodeEntities(textCall.arg.chars))
    /\ UNCHANGED <<mainVars, cleanup, tts, summarize>>

KciTitleCall ==
    /\ Pending("kciTitle")
    /\ textCall' = Result(KciTitle(textCall.arg, textCall.arg2))
    /\ UNCHANGED <<mainVars, cleanup, tts, summarize>>

KciAbstractCall ==
    /\ Pending("kciAbstract")
    /\ textCall' = Result(KciAbstract(textCall.arg))
    /\ UNCHANGED <<mainVars, cleanup, tts, summarize>>

TextNext ==
    \/ FlattenTextCall
    \/ DecodeEntitiesCall
    \/ KciTitleCall
    \/ KciAbstractCall

TextSpec == TextInit /\ [][TextNext]_vars

-----------------------------------------------------------------------------
(* The cleanup job and the saving of papers *)

\* The handler from its entry to the whitelist query: the service-role key is tested
CleanupGET ==
    /\ cleanup.pc = "start"
    /\ cleanup' = IF ~cleanup.hasKey
                  THEN [cleanup EXCEPT !.pc = "done", !.response = CleanupError]
                  ELSE [cleanup EXCEPT !.pc = "reading"]
    /\ UNCHANGED <<mainVars, textCall, tts, summarize>>

\* The whitelist query settled: an error is thrown to the catch block; no row or a
\* value that is not an array protects nothing; then the bucket is listed
WhitelistSettled ==
    /\ cleanup.pc = "reading"
    /\ cleanup' =
          IF cleanup.settings = "error"
          THEN [cleanup EXCEPT !.pc = "done", !.response = CleanupError]
          ELSE [cleanup EXCEPT !.pc = "listing",
                               !.protectedFiles =
                                   IF cleanup.settings = "ok"
                                   THEN ProtectedFiles(cleanup.userSettings) ELSE {}]
    /\ UNCHANGED <<mainVars, textCall, tts, summarize>>

\* The listing settled: steps 3 and 4, and the response when nothing is to delete
ListSettled ==
    /\ cleanup.pc = "listing"
    /\ LET toDelete == FilesToDelete(cleanup.bucket, cleanup.protectedFiles)
       IN  cleanup' =
              IF cleanup.list = "error"
              THEN [cleanup EXCEPT !.pc = "done", !.response = CleanupError]
              ELSE IF cleanup.bucket = <<>>
              THEN [cleanup EXCEPT !.pc = "done", !.response = NothingToClean]
              ELSE IF toDelete = <<>>
              THEN [cleanup EXCEPT !.pc = "done",
                                   !.response = CleanupDone(<<>>, cleanup.protectedFiles)]
              ELSE [cleanup EXCEPT !.pc = "removing", !.filesToDelete = toDelete]
    /\ UNCHANGED <<mainVars, textCall, tts, summarize>>

\* remove(filesToDelete) settled: the files are gone, or the error is thrown
RemoveSettled ==
    /\ cleanup.pc = "removing"
    /\ LET gone == {i \in DOMAIN cleanup.bucket :
                       cleanup.bucket[i].name \in Range(cleanup.filesToDelete)}
           kept == SelectSeq(cleanup.bucket,
                             LAMBDA f : f.name \notin Range(cleanup.filesToDelete))
       IN  cleanup' =
              IF cleanup.remove = "error"
              THEN [cleanup EXCEPT !.pc = "done", !.response = CleanupError]
              ELSE [cleanup EXCEPT !.pc = "done",
                                   !.bucket = kept,
                                   !.removed = {cleanup.bucket[i] : i \in gone},
                                   !.response = CleanupDone(cleanup.filesToDelete,
                                                            cleanup.protectedFiles)]
    /\ UNCHANGED <<mainVars, textCall, tts, summarize>>

\* toggleSave and updateSavedPapersInDb of the page: the paper is removed from the
\* user's list when it is there and put in front of it otherwise, and the list is
\* written to user_preferences.saved_papers. A user saves at any time before the job
\* has answered.
ToggleSave(paper) ==
    /\ cleanup.pc \in {"start", "reading", "listing", "removing"}
    /\ LET saved == cleanup.userPreferences
           isSaved == \E i \in DOMAIN saved : saved[i].id = paper.id
           newSaved == IF isSaved THEN SelectSeq(saved, LAMBDA q : q.id # paper.id)
                       ELSE <<paper>> \o saved
       IN  cleanup' = [cleanup EXCEPT !.userPreferences = newSaved]
    /\ UNCHANGED <<mainVars, textCall, tts, summarize>>

NamePool == <<"f1", "f2", "f3", "f4">>
FileNames == {NamePool[i] : i \in 1..Min(MaxFiles, Len(NamePool))}

AudioPaper(name) == SavedPaper(name, <<"https:", "", "host", "podcast-audio", name>>)

\* The papers a user saves
SavablePapers == {AudioPaper(name) : name \in FileNames}

\* The value of the row of user_settings with the key savedPapers
Whitelists ==
    {<<>>, <<AudioPaper("f1")>>,
     <<SavedPaper("p0", <<>>), SavedPaper("p9", <<"https:", "", "host", "">>),
       AudioPaper("f1")>>}

\* Creation times: older than 24 hours, exactly 24 hours, a millisecond, unparsable
Created == {Num(TwentyFourHours + 1), Num(TwentyFourHours), Num(1), NaN}

\* The listings of the bucket: every name absent or present with a creation time
RECURSIVE Listings(_)
Listings(n) ==
    IF n = 0 THEN {<<>>}
    ELSE LET shorter == Listings(n - 1)
         IN  shorter \cup {Append(l, BucketFile(NamePool[n], c)) : l \in shorter, c \in Created}

\* The outcomes of the four things the job depends on, at most one of them failing
CleanupOutcomes ==
    {[hasKey |-> k, settings |-> st, list |-> l, remove |-> r] :
        k \in BOOLEAN, st \in {"ok", "error", "norow", "notarray"},
        l \in {"ok", "error"}, r \in {"ok", "error"}}

CleanupInit ==
    /\ MainIdle
    /\ textCall = NoText
    /\ tts = NoTts
    /\ summarize = NoSummarize
    /\ \E o \in {x \in CleanupOutcomes :
                    Cardinality({f \in {"k", "s", "l", "r"} :
                        \/ f = "k" /\ ~x.hasKey
                        \/ f = "s" /\ x.settings # "ok"
                        \/ f = "l" /\ x.list # "ok"
                        \/ f = "r" /\ x.remove # "ok"}) <= 1},
          w \in Whitelists, b \in Listings(Min(MaxFiles, Len(NamePool))) :
          /\ o.settings \in {"norow", "notarray"} => w = <<>>
          /\ cleanup = [NoCleanup EXCEPT !.pc = "start", !.hasKey = o.hasKey,
                                         !.settings = o.settings, !.list = o.list,
                                         !.remove = o.remove, !.userSettings = w,
                                         !.bucket = b]

CleanupNext ==
    \/ CleanupGET
    \/ WhitelistSettled
    \/ ListSettled
    \/ RemoveSettled
    \/ \E paper \in SavablePapers : ToggleSave(paper)

CleanupSpec == CleanupInit /\ [][CleanupNext]_vars

-----------------------------------------------------------------------------
(* The text-to-speech handler, step by step *)

\* The handler from its entry to the first synthesis (or to its 400 response)
TtsPOST ==
    /\ tts.pc = "start"
    /\ tts' = IF ~tts.hasScript \/ tts.script = <<>>
              THEN [tts EXCEPT !.pc = "done", !.status = 400]
              ELSE Synthesise([tts EXCEPT !.chunks = ScriptChunks(tts.script)], 1)
    /\ UNCHANGED <<mainVars, textCall, cleanup, summarize>>

\* ttsPromise and readFileSync succeeded
ChunkSynthesised ==
    /\ tts.pc = "synth"
    /\ tts' = AfterChunkAudio(tts)
    /\ UNCHANGED <<mainVars, textCall, cleanup, summarize>>

\* ttsPromise rejected or readFileSync threw
ChunkFailed ==
    /\ tts.pc = "synth"
    /\ tts' = AfterChunkError(tts)
    /\ UNCHANGED <<mainVars, textCall, cleanup, summarize>>

\* The 300 ms pause is over: the next chunk, with retryCount = 0
PauseElapsed ==
    /\ tts.pc = "pause"
    /\ tts' = Synthesise([tts EXCEPT !.retryCount = 0], tts.i + 1)
    /\ UNCHANGED <<mainVars, textCall, cleanup, summarize>>

\* The second of waiting is over: the same chunk again
BackoffElapsed ==
    /\ tts.pc = "backoff"
    /\ tts' = Synthesise(tts, tts.i)
    /\ UNCHANGED <<mainVars, textCall, cleanup, summarize>>

\* The upload settled: with an error the handler throws, otherwise the file holds the
\* concatenated audio and the insert is issued
UploadSettled(ok) ==
    /\ tts.pc = "uploading"
    /\ tts' = IF ok
              THEN [tts EXCEPT !.pc = "inserting", !.uploaded = TRUE,
                               !.file = Concat(tts.audioBuffers),
                               !.insertCalls = tts.insertCalls + 1]
              ELSE TtsFailed(tts)
    /\ UNCHANGED <<mainVars, textCall, cleanup, summarize>>

\* The insert settled: the success response, or the error response
InsertSettled(ok) ==
    /\ tts.pc = "inserting"
    /\ tts' = IF ok THEN [tts EXCEPT !.pc = "done", !.inserted = TRUE, !.status = 200]
              ELSE TtsFailed(tts)
    /\ UNCHANGED <<mainVars, textCall, cleanup, summarize>>

\* The pieces of a script: sentences of three lengths and speaker labels
PieceKinds ==
    {[kind |-> "sentence", length |-> 200], [kind |-> "sentence", length |-> 300],
     [kind |-> "sentence", length |-> 600], [kind |-> "label", length |-> 10]}

Scripts ==
    {[i \in DOMAIN ks |-> Piece(i, ks[i].kind, ks[i].length)] :
        ks \in SeqsUpTo(PieceKinds, MaxPieces)}

TtsInit ==
    /\ MainIdle
    /\ textCall = NoText
    /\ cleanup = NoCleanup
    /\ summarize = NoSummarize
    /\ \/ tts = [NoTts EXCEPT !.pc = "start"]
       \/ \E script \in Scripts :
             tts = [NoTts EXCEPT !.pc = "start", !.hasScript = TRUE, !.script = script]

TtsNext ==
    \/ TtsPOST
    \/ ChunkSynthesised
    \/ ChunkFailed
    \/ PauseElapsed
    \/ BackoffElapsed
    \/ \E ok \in BOOLEAN : UploadSettled(ok)
    \/ \E ok \in BOOLEAN : InsertSettled(ok)

TtsSpec == TtsInit /\ [][TtsNext]_vars

-----------------------------------------------------------------------------
(* The summarize handler, step by step *)

\* The handler from its entry to the first model call: a body that is not JSON makes
\* req.json() reject inside the try block, a body without abstract is answered 400
SummarizePOST ==
    /\ summarize.pc = "start"
    /\ summarize' =
          IF summarize.body = "invalid" THEN SummarizeFailed(summarize)
          ELSE IF ~summarize.hasAbstract
          THEN [summarize EXCEPT !.pc = "done", !.status = 400]
          ELSE TryModel(summarize)
    /\ UNCHANGED <<mainVars, textCall, cleanup, tts>>

\* generateContent of the model tried last settled
ModelSettled ==
    /\ summarize.pc = "generating"
    /\ summarize' = AfterModel(summarize, summarize.answers[Len(summarize.tried)])
    /\ UNCHANGED <<mainVars, textCall, cleanup, tts>>

\* A model answers with text, with an empty text, with a 404 error or another error
ModelAnswers == {"text", "empty", "404", "error"}

SummarizeInit ==
    /\ MainIdle
    /\ textCall = NoText
    /\ cleanup = NoCleanup
    /\ tts = NoTts
    /\ \E body \in {"json", "invalid"}, hasAbstract \in BOOLEAN,
          answers \in [DOMAIN modelsToTry -> ModelAnswers] :
          /\ body = "invalid" => ~hasAbstract
          /\ summarize = [NoSummarize EXCEPT !.pc = "start", !.body = body,
                                             !.hasAbstract = hasAbstract,
                                             !.answers = answers]

SummarizeNext ==
    \/ SummarizePOST
    \/ ModelSettled

SummarizeSpec == SummarizeInit /\ [][SummarizeNext]_vars

-----------------------------------------------------------------------------
(* Properties *)

ApisOf(a) == IF a = "pubmed" THEN {"esearch", "efetch"} ELSE {a}

CallsOf(a) == {i \in DOMAIN calls : calls[i].api \in ApisOf(a)}

RawQueryEmpty == ~req.q.has \/ req.q.val = <<>>

Count(s, x) == Cardinality({i \in DOMAIN s : s[i] = x})

\* s and t hold the same elements, each the same number of times
SameBag(s, t) ==
    /\ Len(s) = Len(t)
    /\ \A x \in Range(s) \cup Range(t) : Count(s, x) = Count(t, x)

\* C1: a request whose q is absent or empty is answered with an empty list and no
\* meta, without a generateContent call and without any adapter being started; and an
\* adapter called with an empty query returns an empty list and issues no HTTP call.
C1_EmptyQueryShortCircuits ==
    /\ (pc = "done" /\ RawQueryEmpty) =>
          /\ response = EmptyResponse
          /\ genCalls = 0
          /\ calls = <<>>
          /\ \A a \in Adapters : ad[a].pc = "idle"
    /\ \A a \in Adapters :
          (ad[a].pc # "idle" /\ ad[a].query = <<>>) =>
              /\ ad[a].pc = "done"
              /\ ad[a].value = <<>>
              /\ CallsOf(a) = {}

C1_Witness ==
    /\ pc = "done"
    /\ req.q = Given(<<>>)
    /\ req.category.has
    /\ response.status = 200
    /\ response.papers = <<>>

PubmedFailed == upstream.esearch.kind # "ok"
KciFailed == ~upstream.kciKey \/ upstream.kci.kind # "ok"

\* C2: when one adapter succeeds and the other fails (timeout, network error, error
\* status, malformed body), the response is successful and its records are exactly the
\* records the succeeding adapter returned, each once.
C2_PartialFailureKeepsRecords ==
    (pc = "done" /\ ~RawQueryEmpty /\ PubmedFailed # KciFailed) =>
        /\ response.status = 200
        /\ SameBag(response.papers,
                   IF PubmedFailed THEN ad["kci"].value ELSE ad["pubmed"].value)
        /\ Len(IF PubmedFailed THEN ad["pubmed"].value ELSE ad["kci"].value) = 0

C2_Witness ==
    /\ pc = "done"
    /\ upstream.esearch.kind = "timeout"
    /\ ~KciFailed
    /\ Len(response.papers) = 2
    /\ \A i \in DOMAIN response.papers : response.papers[i].source = "KCI"

\* The response of generateContent carries no query text: it is empty, blank, or made
\* of quotes and code fences only
ExpansionUnusable ==
    upstream.gen.kind = "text" /\ Without(upstream.gen.text, {" ", "q", "f"}) = <<>>

ExpansionFailedOrSkipped == genCalls = 0 \/ upstream.gen.kind = "throw" \/ ExpansionUnusable

\* C3: when the expansion threw, answered without usable text, or was skipped, the
\* PubMed adapter is started with the raw query, its search call carries the raw query,
\* and so does the KCI call.
C3_FailedExpansionFallsBackToRawQuery ==
    (pc \in {"fetching", "done"} /\ ~RawQueryEmpty /\ ExpansionFailedOrSkipped) =>
        /\ englishQuery = req.q.val
        /\ \E i \in DOMAIN calls : calls[i].api = "esearch" /\ calls[i].term = req.q.val
        /\ upstream.kciKey =>
              \E i \in DOMAIN calls : calls[i].api = "kci" /\ calls[i].term = req.q.val

HasHangul(query) == \E i \in DOMAIN query : query[i] = "k"

\* C4: for a non-empty query, generateContent is invoked exactly when the query holds a
\* Hangul character or a category is given; otherwise the response carries no
\* translatedQuery.
C4_ExpansionOnlyForKoreanOrCategory ==
    (pc \in {"expanding", "fetching", "done"} /\ ~RawQueryEmpty) =>
        /\ (genCalls > 0) <=> (HasHangul(req.q.val) \/ Category # <<>>)
        /\ (pc = "done" /\ ~HasHangul(req.q.val) /\ Category = <<>>) =>
              ~response.meta.hasTranslated

\* C5: the response never holds more records than the clamped maxResults.
C5_ResultWithinMaxResults ==
    (pc = "done" /\ ~RawQueryEmpty /\ ~options.maxResults.nan) =>
        Len(response.papers) <= options.maxResults.v

\* C6: whatever the limit parameter, every HTTP call of the request carries a numeric
\* cap of at most 20, and the batch detail call asks for at most 20 identifiers.
C6_MaxResultsClamped ==
    (pc \in {"expanding", "fetching", "done"}) =>
        \A i \in DOMAIN calls : ~calls[i].max.nan /\ calls[i].max.v <= MaxResultsCap

\* Phase 2 failed: it timed out, the connection failed, the status was not OK, or the
\* body could not be read or was not the expected XML
Phase2Failed == upstream.efetch.kind \in EFetchThrows \cup {"malformed_accepted"}

\* C7: when phase 1 resolved identifiers and phase 2 failed, fetchPubmedPapers returns
\* one placeholder per identifier, in order: id pubmed_<id>, a link to the identifier
\* and the details-unavailable marker.
C7_PlaceholdersAfterPhase2Failure ==
    (ad["pubmed"].pc = "done" /\ ad["pubmed"].ids # <<>> /\ Phase2Failed) =>
        /\ Len(ad["pubmed"].value) = Len(ad["pubmed"].ids)
        /\ \A i \in DOMAIN ad["pubmed"].value :
              /\ ad["pubmed"].value[i].id = "pubmed_" \o ad["pubmed"].ids[i]
              /\ ad["pubmed"].value[i].originalUrl =
                     "https://pubmed.ncbi.nlm.nih.gov/" \o ad["pubmed"].ids[i] \o "/"
              /\ ad["pubmed"].value[i].authors = "Details unavailable"

Parsable(p) == ~GetTime(p.date).nan

\* C8: in the response the parsed dates never increase from one record to the next,
\* and no record with an unparsable date stands before one with a parsable date.
C8_SortedByDateUnparsableLast ==
    (pc = "done" /\ ~RawQueryEmpty) =>
        \A i, j \in DOMAIN response.papers :
            i < j =>
                /\ (Parsable(response.papers[i]) /\ Parsable(response.papers[j])) =>
                      GetTime(response.papers[i].date).v >= GetTime(response.papers[j].date).v
                /\ Parsable(response.papers[j]) => Parsable(response.papers[i])

IsFormulary(p) == p.source = "KampoDB"

C10_UniqueIds ==
    (pc = "done") =>
        \A i, j \in DOMAIN response.papers :
            i # j => response.papers[i].id # response.papers[j].id

\* The source prefix of an adapter's ids and the native identifier of a backend entry
\* ("" when the entry carries none)
IdPrefix(a) ==
    CASE a = "pubmed" -> "pubmed_" [] a = "kci" -> "kci_" [] a = "jstage" -> "jstage_"
      [] a = "ss" -> "semanticscholar_"

NativeId(a, entry) ==
    CASE a = "pubmed" -> entry.pmid
      [] a = "kci" -> entry.articleId
      [] a = "jstage" -> IF entry.path # <<>> THEN entry.path[Len(entry.path)] ELSE ""
      [] a = "ss" -> entry.paperId

\* The entries the backend served to an adapter that ran to its mapping step
EntriesServed(a) ==
    IF a = "pubmed" THEN Serve(upstream.efetch.articles, Num(Len(ad[a].ids)))
    ELSE Serve(upstream[a].records, ad[a].max)

Mapped(a) ==
    /\ ad[a].pc = "done"
    /\ ad[a].query # <<>>
    /\ IF a = "pubmed" THEN ad[a].ids # <<>> /\ upstream.efetch.kind = "ok"
       ELSE upstream[a].kind = "ok" /\ (a = "kci" => upstream.kciKey)

RandomIds(a) == {IdPrefix(a) \o r : r \in RandomSuffixes}

\* C11: the id of a record is the source prefix followed by the entry's native
\* identifier whenever the entry carries one, whatever random suffix was drawn, so that
\* two runs over the same backend response give the same ids; an id with a random suffix
\* belongs to an entry without native identifier.
C11_IdsDeterministic ==
    \A a \in Adapters :
        Mapped(a) =>
            /\ Len(ad[a].value) = Len(EntriesServed(a))
            /\ \A i \in DOMAIN ad[a].value :
                  /\ NativeId(a, EntriesServed(a)[i]) # "" =>
                        ad[a].value[i].id = IdPrefix(a) \o NativeId(a, EntriesServed(a)[i])
                  /\ ad[a].value[i].id \in RandomIds(a) =>
                        NativeId(a, EntriesServed(a)[i]) = ""

\* a KCI response of one record with and one without article id
C11_Witness ==
    /\ Mapped("kci")
    /\ Len(ad["kci"].value) = 2
    /\ ad["kci"].value[1].id = "kci_7"
    /\ ad["kci"].value[2].id \in RandomIds("kci")

\* C12: every HTTP call runs under a timeout, and the timeout of every single fetch is
\* strictly shorter than the timeout of the batch detail (EFetch) call.
C12_GeneralTimeoutShorterThanBatch ==
    \A i, j \in DOMAIN calls :
        /\ calls[i].timeoutMs > 0
        /\ (calls[i].api # "efetch" /\ calls[j].api = "efetch") =>
              calls[i].timeoutMs < calls[j].timeoutMs


\* The alternatives the publication-type clause of a mode is to hold
PublicationTypesOf(mode) ==
    IF mode = <<"clinical">>
    THEN {"\"case reports\"[pt]", "\"clinical trial\"[pt]", "\"meta-analysis\"[pt]",
          "\"systematic review\"[pt]"}
    ELSE IF mode = <<"evidence">>
    THEN {"\"meta-analysis\"[pt]", "\"systematic review\"[pt]"}
    ELSE {}

IsFullTextClause(clause) == "\"open access\"[filter]" \in Range(clause)

\* C19: the phase 1 call carries the query and after it: for mode clinical one clause
\* over exactly case reports, clinical trial, meta-analysis and systematic review; for
\* mode evidence one clause over exactly meta-analysis and systematic review; for any
\* other mode no publication-type clause; and, whatever the mode, the open-access /
\* free-full-text clause exactly when fullTextOnly is true.
C19_SearchTermByModeAndFullText ==
    \A i \in DOMAIN calls :
        calls[i].api = "esearch" =>
            LET clauses == calls[i].clauses
                types == PublicationTypesOf(options.mode)
                typeClauses == {c \in DOMAIN clauses : ~IsFullTextClause(clauses[c])}
                fullClauses == {c \in DOMAIN clauses : IsFullTextClause(clauses[c])}
            IN  /\ calls[i].term = ad["pubmed"].query
                /\ IF types = {} THEN typeClauses = {}
                   ELSE /\ typeClauses = {1}
                        /\ Range(clauses[1]) = types
                        /\ Len(clauses[1]) = Cardinality(types)
                /\ IF options.fullTextOnly THEN fullClauses = {Len(clauses)}
                   ELSE fullClauses = {}

\* a clinical search restricted to free full text
C19_Witness ==
    /\ options.mode = <<"clinical">>
    /\ options.fullTextOnly
    /\ \E i \in DOMAIN calls : calls[i].api = "esearch" /\ Len(calls[i].clauses) = 2

PubmedCalls(api) == {i \in DOMAIN calls : calls[i].api = api}

\* C20: one invocation of fetchPubmedPapers issues at most one phase 1 call and at most
\* one phase 2 call; the phase 2 call comes after the phase 1 call has completed, only
\* when phase 1 succeeded and resolved identifiers, and it carries all of them.
C20_TwoPhasesInOrder ==
    /\ Cardinality(PubmedCalls("esearch")) <= 1
    /\ Cardinality(PubmedCalls("efetch")) <= 1
    /\ \A i \in PubmedCalls("efetch") :
          /\ \E j \in PubmedCalls("esearch") : j < i
          /\ ad["pubmed"].pc \notin {"idle", "esearch"}
          /\ upstream.esearch.kind = "ok"
          /\ ad["pubmed"].ids # <<>>
          /\ calls[i].term = ad["pubmed"].ids

\* both phases issued, the second for two identifiers
C20_Witness ==
    /\ ad["pubmed"].pc = "done"
    /\ \E i \in PubmedCalls("esearch"), j \in PubmedCalls("efetch") :
          i < j /\ Len(calls[j].term) = 2


C13_EveryRequestAnswered ==
    /\ (pc = "start") ~> (pc = "done")
    /\ \A a \in {"pubmed", "kci"} : InFlight(a) ~> ~InFlight(a)

\* C14: once the caller's request is cancelled, no backend call of any adapter is left
\* in flight; the three sub-fetches of a formula are given up together.
C14_CancellationAbortsCalls ==
    req.aborted => \A a \in AllAdapters : ~InFlight(a)


CountOfSource(papers, source) == Cardinality({i \in DOMAIN papers : papers[i].source = source})

\* C15: the response to a non-empty query carries a meta whose pubmedCount and kciCount
\* are the numbers of PubMed and KCI records of the result (zero included), whose
\* totalCount is the length of the result, and whose translatedQuery is present exactly
\* when the query handed to the PubMed adapter differs from the raw query, and is then
\* that query.
C15_MetaCounts ==
    (pc = "done" /\ ~RawQueryEmpty) =>
        /\ response.hasMeta
        /\ response.meta.pubmedCount = CountOfSource(response.papers, "PubMed")
        /\ response.meta.kciCount = CountOfSource(response.papers, "KCI")
        /\ response.meta.totalCount = Len(response.papers)
        /\ response.meta.hasTranslated <=> (ad["pubmed"].query # req.q.val)
        /\ response.meta.hasTranslated => response.meta.translatedQuery = ad["pubmed"].query

\* an expanded query, one PubMed record and one KCI record
C15_Witness ==
    /\ pc = "done"
    /\ response.meta.hasTranslated
    /\ response.meta.translatedQuery = <<"a">>
    /\ response.meta.pubmedCount = 1
    /\ response.meta.kciCount = 1
    /\ response.meta.totalCount = 2

NoContribution(a) == ad[a].pc = "rejected" \/ ad[a].value = <<>>

\* C16: the response to a non-empty query is never an error response; when every
\* backend failed or returned nothing it is a successful response with an empty record
\* list and its meta.
C16_EmptySuccessNotError ==
    (pc = "done" /\ ~RawQueryEmpty) =>
        /\ response.status = 200
        /\ (NoContribution("pubmed") /\ NoContribution("kci")) =>
              /\ response.papers = <<>>
              /\ response.hasMeta
              /\ response.meta.totalCount = 0

\* both backends failed
C16_Witness ==
    /\ pc = "done"
    /\ upstream.esearch.kind = "timeout"
    /\ upstream.kci.kind = "notok"
    /\ Len(calls) = 2
    /\ response.status = 200
    /\ response.papers = <<>>


TrialsCalls == {i \in DOMAIN calls : calls[i].api = "trials"}

C21_OneRecordPerIdentifier ==
    (ad["pubmed"].pc = "done" /\ ad["pubmed"].ids # <<>>) =>
        /\ Len(ad["pubmed"].value) = Len(ad["pubmed"].ids)
        /\ \A i \in DOMAIN ad["pubmed"].value :
              ad["pubmed"].value[i].id = "pubmed_" \o ad["pubmed"].ids[i]


\* The three calls of a formula completed without transport error or timeout and the
\* status of the basic-info answer was OK
KampoAnswered(sub) ==
    /\ "timeout" \notin {sub.info, sub.crude, sub.disease}
    /\ sub.info \in {"ok", "badjson", "bodystall"}

RECURSIVE KampoExpected(_)
KampoExpected(formulaIds) ==
    IF formulaIds = <<>> THEN <<>>
    ELSE (IF KampoAnswered(upstream.kampo[Head(formulaIds)])
          THEN <<"kampodb_" \o Head(formulaIds)>> ELSE <<>>)
             \o KampoExpected(Tail(formulaIds))

KampoCallsIssued ==
    {i \in DOMAIN calls : calls[i].api \in {"kampo_info", "kampo_crude", "kampo_disease"}}

\* C22: fetchKampoPapers called with an empty list returns an empty list and issues
\* no call; otherwise it returns, in identifier order, one record kampodb_<id> for
\* every identifier whose three calls completed without transport error or timeout and
\* whose basic-info status was OK, whatever the other identifiers met and whatever the
\* status of the ingredient and indication answers.
C22_OneRecordPerAnsweredFormula ==
    (ad["kampo"].pc = "done") =>
        /\ ad["kampo"].ids = <<>> => (ad["kampo"].value = <<>> /\ KampoCallsIssued = {})
        /\ [i \in DOMAIN ad["kampo"].value |-> ad["kampo"].value[i].id]
               = KampoExpected(ad["kampo"].ids)


\* C26: the response of the handler is a function of the request, the expanded query
\* and the values the two adapters settled with: in whatever order the adapters
\* completed, the records are the sort of the PubMed list followed by the KCI list and
\* the meta is computed from the same lists.
C26_ResponseIndependentOfCompletionOrder ==
    (pc = "done" /\ ~RawQueryEmpty) =>
        LET pubmedPapers == PapersOf(Settled(ad["pubmed"]))
            kciPapers == PapersOf(Settled(ad["kci"]))
        IN  /\ response.status = 200
            /\ response.papers = Sort(pubmedPapers \o kciPapers)
            /\ response.meta =
                  [query |-> Query,
                   hasTranslated |-> englishQuery # Query,
                   translatedQuery |-> IF englishQuery # Query THEN englishQuery ELSE <<>>,
                   pubmedCount |-> Len(pubmedPapers),
                   kciCount |-> Len(kciPapers),
                   totalCount |-> Len(pubmedPapers) + Len(kciPapers)]

\* the KCI adapter completed before the PubMed adapter, both with records, and the
\* order of the two lists matters to the sort
C26_Witness ==
    /\ pc = "done"
    /\ ad["kci"].at # 0
    /\ ad["kci"].at < ad["pubmed"].at
    /\ ad["pubmed"].value # <<>>
    /\ ad["kci"].value # <<>>
    /\ Sort(ad["kci"].value \o ad["pubmed"].value)
           # Sort(ad["pubmed"].value \o ad["kci"].value)

\* C27: the text-generation service is invoked at most once per request; while its
\* answer is awaited no adapter has been called; the query handed to the PubMed adapter
\* is the expanded query computed from that one answer, and a translatedQuery reported
\* in meta is that same query.
C27_ExpansionOnceBeforeAdapters ==
    /\ genCalls <= 1
    /\ pc = "expanding" =>
          (calls = <<>> /\ \A a \in DOMAIN ad : ad[a].pc = "idle")
    /\ (pc \in {"fetching", "done"} /\ ~RawQueryEmpty) =>
          /\ ad["pubmed"].query = englishQuery
          /\ genCalls = 1 => englishQuery = Expanded(Query, upstream.gen)
          /\ genCalls = 0 => englishQuery = Query
          /\ \A i \in PubmedCalls("esearch") : calls[i].term = englishQuery
    /\ (pc = "done" /\ response.hasMeta /\ response.meta.hasTranslated) =>
          response.meta.translatedQuery = ad["pubmed"].query

\* an expanded query that differs from the raw query was sent to PubMed and reported
C27_Witness ==
    /\ pc = "done"
    /\ genCalls = 1
    /\ response.meta.hasTranslated
    /\ response.meta.translatedQuery = ad["pubmed"].query
    /\ PubmedCalls("esearch") # {}


\* The first word, white space, and the second word
RECURSIVE HasSpacedRotatorCuff(_)
HasSpacedRotatorCuff(t) ==
    /\ t # <<>>
    /\ \/ /\ Head(t) = "H"
          /\ DigitRun(Tail(t), {" "}) # <<>>
          /\ Len(t) >= Len(DigitRun(Tail(t), {" "})) + 2
          /\ t[Len(DigitRun(Tail(t), {" "})) + 2] = "G"
       \/ HasSpacedRotatorCuff(Tail(t))

\* C23: the title and the abstract of a KCI record never contain the first word, white
\* space and the second word: every occurrence is rewritten to the two words joined,
\* whatever the shape of the field (string, array, nested element).
C23_RotatorCuffNormalized ==
    (textCall.done /\ textCall.fn \in {"kciTitle", "kciAbstract"}) =>
        ~HasSpacedRotatorCuff(textCall.out)

\* an array field whose flattened text had the spaced form
C23_Witness ==
    /\ textCall.done
    /\ textCall.fn = "kciTitle"
    /\ textCall.arg.kind = "array"
    /\ HasSpacedRotatorCuff(flattenText(textCall.arg))
    /\ textCall.out = <<"H", "G">>

CountOf(t, c) == Cardinality({i \in DOMAIN t : t[i] = c})

IsPrefix(p, t) == Len(p) <= Len(t) /\ SubSeq(t, 1, Len(p)) = p

\* C24: flattenText returns a string for every value of a parse tree (null, undefined,
\* strings, numbers, booleans, arrays and objects, nested); the result holds no text
\* of an attribute; the own text of an element comes first and is there once.
C24_FlattenTextTotalAndAttributeFree ==
    /\ Pending("flattenText") => flattenText(textCall.arg) \in Seq({"T", "c", " ", "7"})
    /\ (textCall.done /\ textCall.fn = "flattenText") =>
          /\ textCall.out \in Seq({"T", "c", " ", "7"})
          /\ "A" \notin Range(textCall.out)
          /\ textCall.arg.kind \in {"undefined", "null", "boolean"} => textCall.out = <<>>
          /\ (textCall.arg.kind = "object"
                  /\ Property(textCall.arg, "#text").kind # "undefined") =>
                /\ IsPrefix(Trim(flattenText(Property(textCall.arg, "#text"))), textCall.out)
                /\ CountOf(textCall.out, "T")
                      = 1 + CountOf(flattenText(Property(textCall.arg, "sub")), "T")

\* an element whose keys are a child element, an attribute and the own text, in this
\* order, the child element holding text as well
C24_Witness ==
    /\ textCall.done
    /\ textCall.fn = "flattenText"
    /\ textCall.arg.kind = "object"
    /\ Len(textCall.arg.items) = 3
    /\ textCall.arg.items[1].key = "sub"
    /\ textCall.arg.items[2].key = "@_lang"
    /\ textCall.out = <<"T", " ", "c">>

\* C25: decodeEntities inverts the encoding of a string: every entity is decoded once,
\* so that the encoding of the text '&lt;' decodes to that text and not to '<'.
C25_DecodeInvertsEncode ==
    (textCall.done /\ textCall.fn = "decodeEntities") =>
        \A t \in SeqsUpTo(EntityChars, MaxEntityLen) :
            textCall.arg.chars = Encode(t) => textCall.out = t


\* The file names of the audio of the saved papers: the papers of the whitelist row
\* and the papers of the users' saved lists
SavedFileNames ==
    ProtectedFiles(cleanup.userSettings) \cup ProtectedFiles(cleanup.userPreferences)

\* C28: the cleanup job never deletes a file whose name is the file name of the audio
\* of a saved paper, never deletes a file created 24 hours ago or less or with an
\* unparsable creation time, and when the key is missing or the whitelist query or the
\* listing fails it deletes nothing and answers with an error.
C28_CleanupSparesSavedAndRecent ==
    /\ \A f \in cleanup.removed :
          /\ f.name \notin SavedFileNames
          /\ ~f.created.nan
          /\ f.created.v > TwentyFourHours
    /\ (cleanup.pc = "done"
            /\ (~cleanup.hasKey \/ cleanup.settings = "error" \/ cleanup.list = "error")) =>
          (cleanup.removed = {} /\ cleanup.response.status = 500)


\* C29: every chunk is synthesised at most twice; the chunks are taken in order and the
\* uploaded audio is their concatenation in chunk order; when a chunk failed twice the
\* handler answers with an error and neither uploads nor inserts; the insert is made
\* only after a successful upload.
C29_ChunksInOrderRetryOnce ==
    /\ \A k \in DOMAIN tts.chunks : Count(tts.attempts, k) <= 2
    /\ \A n \in DOMAIN tts.attempts :
          /\ tts.attempts[n] \in DOMAIN tts.chunks
          /\ n = 1 => tts.attempts[n] = 1
          /\ n > 1 => tts.attempts[n] - tts.attempts[n - 1] \in {0, 1}
    /\ tts.audioBuffers = SubSeq(tts.chunks, 1, Len(tts.audioBuffers))
    /\ tts.uploadCalls > 0 => tts.audioBuffers = tts.chunks
    /\ tts.uploaded => tts.file = cleanText(tts.script)
    /\ (\E k \in DOMAIN tts.chunks : Count(tts.failures, k) = 2) =>
          /\ tts.pc = "done"
          /\ tts.status = 500
          /\ tts.uploadCalls = 0
          /\ tts.insertCalls = 0
    /\ tts.insertCalls > 0 => tts.uploaded
    /\ tts.insertCalls <= 1 /\ tts.uploadCalls <= 1

\* two chunks, the first synthesised at the second attempt, the audio uploaded in
\* chunk order and the paper inserted
C29_Witness ==
    /\ tts.pc = "done"
    /\ tts.status = 200
    /\ Len(tts.chunks) = 2
    /\ tts.attempts = <<1, 1, 2>>
    /\ tts.failures = <<1>>
    /\ tts.inserted
    /\ tts.file = tts.chunks[1] \o tts.chunks[2]


\* C30: the summarize handler tries the models in the order of the list, each at most
\* once, answers with the first non-empty script and tries no model after it, answers
\* 500 only when all three models failed or gave an empty text, and answers 400 to a
\* request without abstract before any model is called.
C30_ModelsInOrderFirstScriptWins ==
    /\ summarize.tried = SubSeq(modelsToTry, 1, Len(summarize.tried))
    /\ \A n \in DOMAIN summarize.tried :
          n < Len(summarize.tried) => summarize.answers[n] # "text"
    /\ summarize.status = 200 =>
          /\ summarize.tried # <<>>
          /\ summarize.answers[Len(summarize.tried)] = "text"
          /\ summarize.script = summarize.tried[Len(summarize.tried)]
    /\ summarize.status = 500 =>
          /\ summarize.tried = modelsToTry
          /\ \A n \in DOMAIN modelsToTry : summarize.answers[n] # "text"
    /\ (summarize.pc = "done" /\ summarize.body = "json" /\ ~summarize.hasAbstract) =>
          (summarize.status = 400 /\ summarize.tried = <<>>)


=============================================================================
